---------------------------- MODULE Spec2Model ----------------------------
(***************************************************************************)
(* Metric resolution session engine of sqless_agent: the metric catalog    *)
(* (AssetStore), the intent parser, the candidate retriever, the conflict  *)
(* detector, the confidence gate, the clarification engine, the expert     *)
(* feedback applier, the SQL renderer, the MetricAgent operations and the  *)
(* HTTP handlers of app.py that drive them.                                *)
(*                                                                         *)
(* Representation.                                                         *)
(*  - A Python str that the code inspects (the query, names, aliases,      *)
(*    tags, keywords) is a sequence of characters.  An ASCII character is  *)
(*    itself ("G"); a CJK character is written by its pinyin:              *)
(*      结 jie  算 suan  当 dang  日 ri  天 tian  月 yue  周 zhou           *)
(*      行 hang  业 ye  类 lei  目 mu  渠 qu  道 dao  订 ding  单 dan        *)
(*      转 zhuan  化 hua  走 zou  势 shi  成 cheng  交 jiao  额 e           *)
(*      量 liang  数 shu  支 zhi  付 fu  最 zui  近 jin  的 de  口 kou      *)
(*      径 jing  含 han  退 tui  款 kuan  自 zi  定 dingg  义 yi            *)
(*    Full-width brackets （ ） are "(" and ")".                           *)
(*  - A str that the code only copies or compares as a whole (a spec_id,   *)
(*    a table name, a slot, an option id, a status) is one TLA+ string.    *)
(*  - None is "None" for such a string and <<>> for an optional sequence   *)
(*    (the code tests those by truthiness only).                           *)
(*  - A score is an integer number of thousandths (0.85 is 850).           *)
(***************************************************************************)
EXTENDS Integers, Sequences, FiniteSets, TLC

None == "None"

\* ------------------------------------------------------------------ bounds

\* Operations that change the catalog in one behaviour: insertions, status
\* promotions and usage bumps, counted together.
MaxCatalogChanges == 1
\* Longest answer list passed to one clarify call.
MaxAnswers == 2
\* Largest top_k passed to retrieve when it is called on its own.
MaxTopK == 6

\* ------------------------------------------------------------- characters

\* str.lower() on one character; CJK characters and digits have no case.
LowerChar(c) ==
    CASE c = "G" -> "g"
      [] c = "M" -> "m"
      [] c = "V" -> "v"
      [] OTHER -> c

\* str.lower()
Lower(s) == [i \in 1..Len(s) |-> LowerChar(s[i])]

\* `p in s` for Python strings (p non-empty).
Contains(s, p) ==
    \E i \in 1..(Len(s) - Len(p) + 1) : SubSeq(s, i, i + Len(p) - 1) = p

Digits == {"0", "1", "2", "3", "4", "5", "6", "7", "8", "9"}

\* Elements of a sequence, as a set.
Range(s) == {s[i] : i \in 1..Len(s)}

\* [x for x in s if Keep(x)]
RECURSIVE FilterSeq(_, _)
FilterSeq(s, keep) ==
    IF s = <<>> THEN <<>>
    ELSE IF Head(s) \in keep THEN <<Head(s)>> \o FilterSeq(Tail(s), keep)
    ELSE FilterSeq(Tail(s), keep)


\* ------------------------------------------------------------------ words

W_gmv == <<"g", "m", "v">>
W_GMV == <<"G", "M", "V">>
\* 订单
W_order == <<"ding", "dan">>
\* 转化
W_convert == <<"zhuan", "hua">>
\* 结算
W_settle == <<"jie", "suan">>
\* 行业
W_industry == <<"hang", "ye">>
\* 类目
W_category == <<"lei", "mu">>
\* 渠道
W_channel == <<"qu", "dao">>
\* 成交额
W_turnover == <<"cheng", "jiao", "e">>
T_industry == <<"i", "n", "d", "u", "s", "t", "r", "y">>
T_trend == <<"t", "r", "e", "n", "d">>
T_order == <<"o", "r", "d", "e", "r">>
T_settle == <<"s", "e", "t", "t", "l", "e">>
T_attribution == <<"a", "t", "t", "r", "i", "b", "u", "t", "i", "o", "n">>

\* table names and business-day rules, which the clarification engine tests
\* for the substrings "merchant", "shop" and "natural"
N_category_v3 ==
    <<"d", "i", "m", "_", "c", "a", "t", "e", "g", "o", "r", "y", "_", 
       "i", "n", "d", "u", "s", "t", "r", "y", "_", "v", "3">>
N_category_v2 ==
    <<"d", "i", "m", "_", "c", "a", "t", "e", "g", "o", "r", "y", "_", 
       "i", "n", "d", "u", "s", "t", "r", "y", "_", "v", "2">>
N_merchant ==
    <<"d", "i", "m", "_", "m", "e", "r", "c", "h", "a", "n", "t", "_", 
       "i", "n", "d", "u", "s", "t", "r", "y">>
R_natural_day == <<"n", "a", "t", "u", "r", "a", "l", "_", "d", "a", "y">>
R_settlement_day ==
    <<"s", "e", "t", "t", "l", "e", "m", "e", "n", "t", "_", "d", "a", "y">>
R_business_day == <<"b", "u", "s", "i", "n", "e", "s", "s", "_", "d", "a", "y">>
S_merchant == <<"m", "e", "r", "c", "h", "a", "n", "t">>
S_shop == <<"s", "h", "o", "p">>
S_natural == <<"n", "a", "t", "u", "r", "a", "l">>

\* ------------------------------------------------- metric specifications

\* The four specifications of build_default_specs, in the order it returns
\* them, and two further MetricSpec objects a caller may insert.
DefaultSpecs == <<"pay_v2", "pay_v1", "settle_v1", "order_v1">>
CustomSpecs == {"settle_rev", "custom"}
Objs == Range(DefaultSpecs) \cup CustomSpecs

\* A physical.sql_template override: literal text and str.format fields.
CustomTemplate ==
    << [ph |-> FALSE, s |-> "SELECT COUNT(*) FROM "],
       [ph |-> TRUE, s |-> "fact_table"],
       [ph |-> FALSE, s |-> " WHERE "],
       [ph |-> TRUE, s |-> "where_clause"] >>

\* The MetricSpec objects as constructed: the fields the engine reads, with
\* meta.status and meta.usage_count as the constructor sets them.  dim_table
\* is <<>> for a spec without semantics.industry_mapping.
SpecFields(o) ==
    CASE o = "pay_v2" ->
           [spec_id |-> "spec_pay_gmv_v2",
            name |-> W_industry \o W_GMV,
            aliases |-> <<W_GMV, W_turnover, W_industry \o W_turnover>>,
            tags |-> <<W_gmv, T_industry, T_trend>>,
            status |-> "verified", usage_count |-> 0,
            metric_caliber |-> "zhifu", time_granularity |-> "day",
            filters |-> <<"is_risk_order = 0", "is_refund = 0">>,
            fact_table |-> "dws_trade_order_day", time_column |-> "pay_date",
            measure_column |-> "pay_gmv_amt", sql_template |-> <<>>,
            dim_table |-> N_category_v3,
            business_day_rule |-> R_natural_day]
      [] o = "pay_v1" ->
           [spec_id |-> "spec_pay_gmv_v1",
            name |-> W_industry \o W_GMV
                     \o <<"(", "zhi", "fu", "han", "tui", "kuan", ")">>,
            aliases |-> << <<"zhi", "fu">> \o W_GMV
                           \o <<"(", "han", "tui", "kuan", ")">> >>,
            tags |-> <<W_gmv, T_industry, T_attribution>>,
            status |-> "verified", usage_count |-> 0,
            metric_caliber |-> "zhifu", time_granularity |-> "day",
            filters |-> <<"is_risk_order = 0">>,
            fact_table |-> "dws_trade_order_day", time_column |-> "pay_date",
            measure_column |-> "pay_gmv_amt", sql_template |-> <<>>,
            dim_table |-> N_category_v2,
            business_day_rule |-> R_natural_day]
      [] o = "settle_v1" ->
           [spec_id |-> "spec_settle_gmv_v1",
            name |-> W_industry \o W_GMV
                     \o <<"(">> \o W_settle \o <<"kou", "jing", ")">>,
            aliases |-> <<W_settle \o W_GMV,
                          W_industry \o W_settle \o <<"e">> >>,
            tags |-> <<W_gmv, T_settle, T_industry>>,
            status |-> "draft", usage_count |-> 0,
            metric_caliber |-> "jiesuan", time_granularity |-> "week",
            filters |-> <<"is_risk_order = 0">>,
            fact_table |-> "dws_trade_settle_week",
            time_column |-> "settle_week",
            measure_column |-> "settle_gmv_amt", sql_template |-> <<>>,
            dim_table |-> N_category_v3,
            business_day_rule |-> R_settlement_day]
      [] o = "order_v1" ->
           [spec_id |-> "spec_order_cnt_v1",
            name |-> W_order \o <<"liang">>,
            aliases |-> <<W_order \o <<"shu">> >>,
            tags |-> <<T_order, T_industry>>,
            status |-> "draft", usage_count |-> 0,
            metric_caliber |-> "xiadan", time_granularity |-> "day",
            filters |-> <<"is_risk_order = 0">>,
            fact_table |-> "dws_trade_order_day", time_column |-> "order_date",
            measure_column |-> "order_cnt", sql_template |-> <<>>,
            dim_table |-> N_category_v2,
            business_day_rule |-> R_natural_day]
      [] o = "settle_rev" ->
           \* a revision of the settlement spec under the same spec_id
           [spec_id |-> "spec_settle_gmv_v1",
            name |-> W_industry \o W_GMV
                     \o <<"(">> \o W_settle \o <<"kou", "jing", ")">>,
            aliases |-> <<W_settle \o W_GMV, W_settle \o W_turnover>>,
            tags |-> <<W_gmv, T_settle>>,
            status |-> "draft", usage_count |-> 0,
            metric_caliber |-> "jiesuan", time_granularity |-> "week",
            filters |-> <<>>,
            fact_table |-> "dws_trade_settle_week",
            time_column |-> "settle_week",
            measure_column |-> "settle_gmv_amt", sql_template |-> <<>>,
            dim_table |-> N_merchant,
            business_day_rule |-> R_settlement_day]
      [] OTHER ->
           \* "custom": matches two keywords by name and alias, carries an
           \* upper-case tag and a template override
           [spec_id |-> "spec_custom_v1",
            name |-> W_order,
            aliases |-> <<W_convert>>,
            tags |-> <<W_GMV>>,
            status |-> "draft", usage_count |-> 0,
            metric_caliber |-> None, time_granularity |-> "day",
            filters |-> <<>>,
            fact_table |-> "dws_custom", time_column |-> "dt",
            measure_column |-> "amt", sql_template |-> CustomTemplate,
            dim_table |-> <<>>,
            business_day_rule |-> R_business_day]

SpecTable == [o \in Objs |-> SpecFields(o)]

SpecDef(o) == SpecTable[o]

SpecIdOf(o) == SpecDef(o).spec_id

\* spec ids a caller may name: those of the objects, and one no object has.
SpecIds == {SpecIdOf(o) : o \in Objs} \cup {"spec_unknown"}

\* ------------------------------------------------------------------- state

VARIABLES
    cold,       \* AssetStore.cold_specs: the objects, in dict insertion order
    hot,        \* AssetStore.hot_specs: the objects, in dict insertion order
    meta,       \* per object, the mutable meta.status and meta.usage_count
    sessions,   \* the SessionState records created so far, by session id
    result,     \* what the last operation returned or raised
    changes,    \* how many operations have changed the catalog (for the bound)
    bumps       \* per thread inside AssetStore.bump_usage, where it stands

vars == <<cold, hot, meta, sessions, result, changes, bumps>>
catalog == <<cold, hot, meta>>

\* ----------------------------------------------------------- intent parser

\* IntentParser.parse: the default keyword list and the dimension vocabulary
MetricKeywords == <<W_gmv, W_order, W_convert>>
DimensionWords == <<W_industry, W_category, W_channel>>

\* re.search(r"(\d{1,2})月", query): the group of the leftmost match, <<>>
\* when there is none.  At one start the greedy two-digit form and the
\* one-digit form exclude each other.
MonthMatchAt(q, i) ==
    IF /\ i + 2 <= Len(q) /\ q[i] \in Digits /\ q[i + 1] \in Digits
       /\ q[i + 2] = "yue"
    THEN <<q[i], q[i + 1]>>
    ELSE IF i + 1 <= Len(q) /\ q[i] \in Digits /\ q[i + 1] = "yue"
    THEN <<q[i]>>
    ELSE <<>>

_extract_time_range(query) ==
    LET starts == {i \in 1..Len(query) : MonthMatchAt(query, i) # <<>>}
    IN  IF starts = {} THEN <<>>
        ELSE LET first == CHOOSE i \in starts : \A j \in starts : i <= j
             IN  <<"zui", "jin", "de", " ">> \o MonthMatchAt(query, first)
                 \o <<" ", "yue">>

parse(query) ==
    [raw_query |-> query,
     metrics |-> FilterSeq(MetricKeywords,
                    {kw \in Range(MetricKeywords) :
                        Contains(Lower(query), Lower(kw))}),
     dimensions |-> FilterSeq(DimensionWords,
                    {m \in Range(DimensionWords) : Contains(query, m)}),
     time_range |-> _extract_time_range(query),
     granularity |-> IF Contains(query, <<"ri">>) \/ Contains(query, <<"tian">>)
                     THEN "tian" ELSE None,
     filters |-> <<>>]

\* ------------------------------------------------------------- asset store

\* dict[key] = value on an insertion-ordered dict keyed by spec_id: a present
\* key keeps its place and takes the new object, a new key goes last.
DictPut(pool, o) ==
    IF \E i \in 1..Len(pool) : SpecIdOf(pool[i]) = SpecIdOf(o)
    THEN [i \in 1..Len(pool) |->
             IF SpecIdOf(pool[i]) = SpecIdOf(o) THEN o ELSE pool[i]]
    ELSE Append(pool, o)

\* dict.get(spec_id): the object, or None
DictGet(pool, spec_id) ==
    IF \E i \in 1..Len(pool) : SpecIdOf(pool[i]) = spec_id
    THEN pool[CHOOSE i \in 1..Len(pool) : SpecIdOf(pool[i]) = spec_id]
    ELSE None

\* AssetStore.get_all
get_all == cold \o hot

\* the object AssetStore.bump_usage increments, or None
BumpTarget(spec_id) ==
    IF DictGet(hot, spec_id) # None THEN DictGet(hot, spec_id)
    ELSE DictGet(cold, spec_id)

\* Faulty variant of bump_usage: every specification of the catalog stored
\* under the id is incremented, not only the one the lookup finds.
bump_usage_every_holder(spec_id) ==
    [o \in DOMAIN meta |->
        IF o \in Range(cold \o hot) /\ SpecIdOf(o) = spec_id
        THEN [meta[o] EXCEPT !.usage_count = @ + 1]
        ELSE meta[o]]

\* meta after AssetStore.bump_usage(spec_id)
bump_usage(spec_id) ==
    IF BumpTarget(spec_id) = None THEN meta
    ELSE [meta EXCEPT ![BumpTarget(spec_id)].usage_count = @ + 1]

\* Faulty variant of mark_verified: the specification is looked up like
\* bump_usage does, in the hot pool and then in the cold pool.
mark_verified_any_pool(spec_id) ==
    IF BumpTarget(spec_id) = None THEN meta
    ELSE [meta EXCEPT ![BumpTarget(spec_id)].status = "verified"]


\* meta after AssetStore.mark_verified(spec_id)
mark_verified(spec_id) ==
    IF DictGet(hot, spec_id) = None THEN meta
    ELSE [meta EXCEPT ![DictGet(hot, spec_id)].status = "verified"]

\* ------------------------------------------------------ candidate selector

\* the name_tokens of _score_spec, per object: the lowercased name and
\* aliases, and the tags as they are written
NameTokens ==
    [o \in Objs |-> {Lower(SpecDef(o).name)}
                    \cup {Lower(a) : a \in Range(SpecDef(o).aliases)}
                    \cup Range(SpecDef(o).tags)]

\* Faulty variant of _score_spec: the freshness term is left out.
_score_spec_no_freshness(o, keywords) ==
    LET name_tokens == NameTokens[o]
        overlap == Cardinality(keywords \cap name_tokens)
        usage_bonus == IF meta[o].usage_count * 10 < 100
                       THEN meta[o].usage_count * 10 ELSE 100
    IN  overlap * 600 + usage_bonus

\* Faulty variant of _score_spec: the usage bonus has no cap.
_score_spec_uncapped(o, keywords) ==
    LET name_tokens == NameTokens[o]
        overlap == Cardinality(keywords \cap name_tokens)
        freshness == IF meta[o].status = "verified" THEN 300 ELSE 255
        usage_bonus == meta[o].usage_count * 10
    IN  overlap * 600 + freshness + usage_bonus


\* CandidateSelector._score_spec, in thousandths
_score_spec(o, keywords) ==
    LET name_tokens == NameTokens[o]
        overlap == Cardinality(keywords \cap name_tokens)
        freshness == IF meta[o].status = "verified" THEN 300 ELSE 255
        usage_bonus == IF meta[o].usage_count * 10 < 100
                       THEN meta[o].usage_count * 10 ELSE 100
    IN  overlap * 600 + freshness + usage_bonus

\* Faulty variant of SortByScoreDesc: the sort is left out.
SortByScoreDesc_unsorted(scored) == scored

\* Faulty variant of SortByScoreDesc: an ascending sort reversed, which
\* turns the order of equal scores around.
SortByScoreDesc_ties_reversed(scored) ==
    LET n == Len(scored)
        pos == [i \in 1..n |->
                  1 + Cardinality({j \in 1..n :
                        \/ scored[j].score > scored[i].score
                        \/ scored[j].score = scored[i].score /\ j > i})]
        at == [p \in 1..n |-> CHOOSE i \in 1..n : pos[i] = p]
    IN  [p \in 1..n |-> scored[at[p]]]

\* list.sort(key=score, reverse=True): stable, so an element goes after the
\* elements of higher score and the earlier elements of equal score.
SortByScoreDesc(scored) ==
    LET n == Len(scored)
        pos == [i \in 1..n |->
                  1 + Cardinality({j \in 1..n :
                        \/ scored[j].score > scored[i].score
                        \/ scored[j].score = scored[i].score /\ j < i})]
        at == [p \in 1..n |-> CHOOSE i \in 1..n : pos[i] = p]
    IN  [p \in 1..n |-> scored[at[p]]]

\* s[:k] of a Python list
SliceTo(s, k) ==
    IF k >= 0 THEN SubSeq(s, 1, IF k < Len(s) THEN k ELSE Len(s))
    ELSE SubSeq(s, 1, IF Len(s) + k > 0 THEN Len(s) + k ELSE 0)

\* CandidateSelector.retrieve
retrieve(intent_keywords, top_k) ==
    LET keywords == {Lower(k) : k \in Range(intent_keywords)}
        all == get_all
        scored == [i \in 1..Len(all) |->
                      [spec |-> all[i], score |-> _score_spec(all[i], keywords)]]
    IN  SliceTo(SortByScoreDesc(scored), top_k)

\* the default of retrieve's top_k
DefaultTopK == 5

\* ------------------------------------------------------- conflict detector

NoConflict == <<>>

\* The ConflictNotice of ConflictDetector.detect (message, labels and
\* consequence texts are constants and left out).  周 is "zhou", 支付 "zhifu".
SettleVsDaily ==
    [code |-> "settle_vs_daily",
     options |-> << [option_id |-> "settle_weekly",
                     apply_granularity |-> "zhou",
                     apply_metric_caliber |-> None],
                    [option_id |-> "switch_pay",
                     apply_granularity |-> None,
                     apply_metric_caliber |-> "zhifu"] >>]

\* Faulty variant of detect: the daily marker is not looked at.
detect_settlement_only(intent) ==
    IF Contains(intent.raw_query, W_settle) THEN <<SettleVsDaily>>
    ELSE NoConflict

\* ConflictDetector.detect: <<notice>> or NoConflict
detect(intent) ==
    LET q == intent.raw_query
        has_settlement == Contains(q, W_settle)
        wants_daily == \/ Contains(q, <<"dang", "ri">>)
                       \/ Contains(q, <<"dang", "tian">>)
                       \/ Contains(q, <<"ri">>)
                       \/ Contains(q, <<"tian">>)
                       \/ intent.granularity \in {"tian", "ri"}
    IN  IF has_settlement /\ wants_daily THEN <<SettleVsDaily>> ELSE NoConflict

\* apply_conflict_option: the intent after it.  The annotation
\* f"口径调整为{caliber}" is the pair of its fixed text and the caliber.
apply_conflict_option(intent, option) ==
    LET i1 == IF option.apply_granularity # None
              THEN [intent EXCEPT !.granularity = option.apply_granularity]
              ELSE intent
    IN  IF option.apply_metric_caliber # None
        THEN [i1 EXCEPT !.filters =
                 Append(@, <<"koujingtiaozhengwei", option.apply_metric_caliber>>)]
        ELSE i1

\* --------------------------------------------------------- confidence gate

high_conf_threshold == 850
clarifying_threshold == 650
\* the margin over the second score that auto-selection needs (0.15)
MinMargin == 150

\* Scores are floats: a score of k thousandths is the double nearest to
\* k/1000, and `(top.score - second_score) >= 0.15` subtracts two doubles,
\* rounds the difference to a double and compares it with the double nearest
\* to 0.15.  The operators below compute that test exactly, in integers.
RECURSIVE Pow2(_)
Pow2(n) == IF n = 0 THEN 1 ELSE 2 * Pow2(n - 1)

RECURSIVE Pow2Mod1000(_)
Pow2Mod1000(n) == IF n = 0 THEN 1 ELSE (2 * Pow2Mod1000(n - 1)) % 1000

\* the binade of k/1000 for k in 1..63999: the u with
\* 2^(u-10) <= k/1000 < 2^(u-9); doubles there are 2^(u-62) apart
Binade(k) ==
    CHOOSE u \in 0..15 : 125 * Pow2(u) <= 128 * k /\ 128 * k < 250 * Pow2(u)

\* the double nearest to k/1000, less k/1000, in units of 2^-62 / 1000: the
\* remainder of k * 2^(62-u) by 1000 is rounded off to the nearer side (it
\* is a multiple of 8 and so never the tie 500)
RoundErr(k) ==
    IF k = 0 THEN 0
    ELSE LET u == Binade(k)
             r == ((k % 1000) * Pow2Mod1000(62 - u)) % 1000
         IN  (IF r < 500 THEN 0 - r ELSE 1000 - r) * Pow2(u)

\* half the distance between neighbouring doubles around 0.15 (2^-56), in
\* the same units
HalfSpacing == 64000

\* (top.score - second_score) >= 0.15 as the floats give it.  Rounding moves
\* a value by far less than a thousandth, so it decides only when the
\* decimals are exactly 0.15 apart; then the difference of the two doubles
\* rounds to the double nearest 0.15 or above when it lies above the midpoint
\* below that double (the midpoint itself rounds down, to the even
\* neighbour).
MarginMet(top_score, second_score) ==
    IF top_score - second_score # MinMargin
    THEN top_score - second_score > MinMargin
    ELSE RoundErr(top_score) - RoundErr(second_score) - RoundErr(MinMargin)
             > 0 - HalfSpacing

\* Faulty variant of evaluate: a top score from 0.40 on is not routed to the
\* expert.
evaluate_routes_below_040(state) ==
    IF state.candidates = <<>>
    THEN [state EXCEPT !.route_expert = TRUE, !.confidence = 0]
    ELSE
      LET top == state.candidates[1]
          second_score == IF Len(state.candidates) > 1
                          THEN state.candidates[2].score ELSE 0
          s1 == [state EXCEPT !.confidence = top.score]
      IN  IF top.score >= high_conf_threshold
             /\ MarginMet(top.score, second_score)
          THEN [s1 EXCEPT !.selected_spec = top.spec, !.route_expert = FALSE]
          ELSE IF top.score >= 400
          THEN [s1 EXCEPT !.route_expert = FALSE]
          ELSE [s1 EXCEPT !.route_expert = TRUE]


\* Faulty variant of evaluate: the margin over the second score is not
\* looked at.
evaluate_no_margin(state) ==
    IF state.candidates = <<>>
    THEN [state EXCEPT !.route_expert = TRUE, !.confidence = 0]
    ELSE
      LET top == state.candidates[1]
          s1 == [state EXCEPT !.confidence = top.score]
      IN  IF top.score >= high_conf_threshold
          THEN [s1 EXCEPT !.selected_spec = top.spec, !.route_expert = FALSE]
          ELSE IF top.score >= clarifying_threshold
          THEN [s1 EXCEPT !.route_expert = FALSE]
          ELSE [s1 EXCEPT !.route_expert = TRUE]

\* Faulty variant of evaluate: the empty candidate list leaves route_expert
\* as it was.
evaluate_empty_unrouted(state) ==
    IF state.candidates = <<>>
    THEN [state EXCEPT !.confidence = 0]
    ELSE
      LET top == state.candidates[1]
          second_score == IF Len(state.candidates) > 1
                          THEN state.candidates[2].score ELSE 0
          s1 == [state EXCEPT !.confidence = top.score]
      IN  IF top.score >= high_conf_threshold
             /\ MarginMet(top.score, second_score)
          THEN [s1 EXCEPT !.selected_spec = top.spec, !.route_expert = FALSE]
          ELSE IF top.score >= clarifying_threshold
          THEN [s1 EXCEPT !.route_expert = FALSE]
          ELSE [s1 EXCEPT !.route_expert = TRUE]

\* UncertaintyGate.evaluate: the session after it
evaluate(state) ==
    IF state.candidates = <<>>
    THEN [state EXCEPT !.route_expert = TRUE, !.confidence = 0]
    ELSE
      LET top == state.candidates[1]
          second_score == IF Len(state.candidates) > 1
                          THEN state.candidates[2].score ELSE 0
          s1 == [state EXCEPT !.confidence = top.score]
      IN  IF top.score >= high_conf_threshold
             /\ MarginMet(top.score, second_score)
          THEN [s1 EXCEPT !.selected_spec = top.spec, !.route_expert = FALSE]
          ELSE IF top.score >= clarifying_threshold
          THEN [s1 EXCEPT !.route_expert = FALSE]
          ELSE [s1 EXCEPT !.route_expert = TRUE]

\* Faulty variant of needs_clarification: a session routed to an expert
\* needs none.
needs_clarification_unrouted(state) ==
    state.selected_spec = None /\ ~state.route_expert


\* UncertaintyGate.needs_clarification
needs_clarification(state) == state.selected_spec = None

\* ---------------------------------------------------- clarification engine

\* Faulty variant of PutAnswer: dict.setdefault, the first answer of a slot
\* stays.
PutAnswer_keep_first(clar, ans) ==
    [s \in DOMAIN clar \cup {ans.slot} |->
        IF s \in DOMAIN clar THEN clar[s] ELSE ans]

\* dict[slot] = answer on the clarifications dict
PutAnswer(clar, ans) ==
    [s \in DOMAIN clar \cup {ans.slot} |-> IF s = ans.slot THEN ans ELSE clar[s]]

\* the option lists of QUESTION_BANK, per slot: 下单, 支付, 结算; 类目行业,
\* 商家行业, 内容行业; 自然日(UTC+8), 业务日
BankOptions ==
    [metric_caliber |-> {"xiadan", "zhifu", "jiesuan"},
     industry_mapping |-> {"leimuhangye", "shangjiahangye", "neironghangye"},
     time_semantics |-> {"ziranri(UTC+8)", "yewuri"}]

\* Faulty variant of apply_answers: only an answer for a bank slot with a
\* value among the slot's options is stored.
RECURSIVE apply_answers_validated(_, _)
apply_answers_validated(clar, answers) ==
    IF answers = <<>> THEN clar
    ELSE apply_answers_validated(
             IF Head(answers).slot \in DOMAIN BankOptions
                /\ Head(answers).value \in BankOptions[Head(answers).slot]
             THEN PutAnswer(clar, Head(answers)) ELSE clar,
             Tail(answers))

\* ClarificationEngine.apply_answers: the clarifications dict after it
RECURSIVE apply_answers(_, _)
apply_answers(clar, answers) ==
    IF answers = <<>> THEN clar
    ELSE apply_answers(PutAnswer(clar, Head(answers)), Tail(answers))

\* ClarificationEngine.QUESTION_BANK: slot and static recommendation (the
\* question texts and option lists are constants and left out).  支付 is
\* "zhifu", 类目行业 "leimuhangye", 自然日(UTC+8) "ziranri(UTC+8)".
QUESTION_BANK ==
    << [slot |-> "metric_caliber", recommended |-> "zhifu"],
       [slot |-> "industry_mapping", recommended |-> "leimuhangye"],
       [slot |-> "time_semantics", recommended |-> "ziranri(UTC+8)"] >>

\* the default of ClarificationEngine's max_questions
max_questions == 3

\* ClarificationEngine._slot_values_for_spec: the dict, slot to value.
\* 商家行业 is "shangjiahangye", 业务日 "yewuri".
_slot_values_for_spec(o) ==
    LET d == SpecDef(o)
        slots == (IF d.metric_caliber # None THEN {"metric_caliber"} ELSE {})
                 \cup (IF d.dim_table # <<>> THEN {"industry_mapping"} ELSE {})
                 \cup {"time_semantics"}
    IN  [s \in slots |->
            CASE s = "metric_caliber" -> d.metric_caliber
              [] s = "industry_mapping" ->
                   IF Contains(d.dim_table, S_merchant)
                      \/ Contains(d.dim_table, S_shop)
                   THEN "shangjiahangye" ELSE "leimuhangye"
              [] OTHER ->
                   IF Contains(d.business_day_rule, S_natural)
                   THEN "ziranri(UTC+8)" ELSE "yewuri"]

\* _slot_values_for_spec of every object, computed once
SlotValues == [o \in Objs |-> _slot_values_for_spec(o)]

\* the values the candidates have for a slot, in candidate order
CandidateValues(slot, state) ==
    LET has == {i \in 1..Len(state.candidates) :
                   slot \in DOMAIN SlotValues[state.candidates[i].spec]}
        RECURSIVE Collect(_)
        Collect(i) ==
            IF i > Len(state.candidates) THEN <<>>
            ELSE (IF i \in has
                  THEN <<SlotValues[state.candidates[i].spec][slot]>>
                  ELSE <<>>) \o Collect(i + 1)
    IN  Collect(1)

\* Counter.most_common(1)[0][0] over a non-empty sequence of values: the
\* most frequent value, and of equally frequent ones the first counted
MostCommon(values) ==
    LET count(v) == Cardinality({i \in 1..Len(values) : values[i] = v})
        first(v) == CHOOSE i \in 1..Len(values) :
                        values[i] = v /\ \A j \in 1..(i - 1) : values[j] # v
    IN  CHOOSE v \in Range(values) :
            \A w \in Range(values) :
                \/ count(v) > count(w)
                \/ count(v) = count(w) /\ first(v) <= first(w)

\* the static recommendation of the bank question for a slot, or None
BankRecommended(slot) ==
    LET hits == {i \in 1..Len(QUESTION_BANK) : QUESTION_BANK[i].slot = slot}
    IN  IF hits = {} THEN None
        ELSE QUESTION_BANK[CHOOSE i \in hits : \A j \in hits : i <= j].recommended

\* Faulty variant of _recommended_value: the selected specification is not
\* looked at.
_recommended_value_ignore_selected(slot, state) ==
    IF CandidateValues(slot, state) # <<>>
    THEN MostCommon(CandidateValues(slot, state))
    ELSE BankRecommended(slot)

\* ClarificationEngine._recommended_value
_recommended_value(slot, state) ==
    IF state.selected_spec # None
       /\ slot \in DOMAIN SlotValues[state.selected_spec]
    THEN SlotValues[state.selected_spec][slot]
    ELSE IF CandidateValues(slot, state) # <<>>
    THEN MostCommon(CandidateValues(slot, state))
    ELSE BankRecommended(slot)

\* the (info_gain, question) pairs of next_questions before the sort, for
\* the bank questions from place i on; info_gain is the field `score`
RECURSIVE RankedFrom(_, _, _)
RankedFrom(i, state, skip_asked) ==
    IF i > Len(QUESTION_BANK) THEN <<>>
    ELSE
      LET slot == QUESTION_BANK[i].slot
          values == Range(CandidateValues(slot, state))
          info_gain == IF values = {} /\ state.selected_spec # None THEN 1
                       ELSE Cardinality(values)
      IN  (IF skip_asked /\ slot \in DOMAIN state.clarifications THEN <<>>
           ELSE IF info_gain > 0
           THEN <<[score |-> info_gain, slot |-> slot,
                   recommended |-> _recommended_value(slot, state)]>>
           ELSE <<>>)
          \o RankedFrom(i + 1, state, skip_asked)

\* the questions of a ranked list: slot and recommended value
Questions(ranked) ==
    [i \in 1..Len(ranked) |->
        [slot |-> ranked[i].slot, recommended |-> ranked[i].recommended]]

\* Faulty variant of next_questions: answered slots are asked again.
next_questions_ask_again(state) ==
    Questions(SliceTo(SortByScoreDesc(RankedFrom(1, state, FALSE)),
                      max_questions))

\* ClarificationEngine.next_questions
next_questions(state) ==
    Questions(SliceTo(SortByScoreDesc(RankedFrom(1, state, TRUE)),
                      max_questions))

\* ------------------------------------------------------------------ expert

\* the reviewers MetricAgent is constructed with (app.py, demo.py)
Owners == <<"owner@datateam.com", "lead@datateam.com">>

\* Faulty variant of route_from: the list is returned whole.
route_from_all(owners, state) == owners

\* ExpertRouter.route of a router configured with `owners`
route_from(owners, state) == SliceTo(owners, 3)

\* ExpertRouter.route of the agent's router
route(state) == route_from(Owners, state)

\* ExpertFeedbackApplier.apply
expert_apply(state, spec) ==
    [state EXCEPT !.selected_spec = spec, !.route_expert = FALSE]

\* ------------------------------------------------------------ SQL renderer

\* sep.join(parts), parts being strings given as sequences of pieces
RECURSIVE Join(_, _)
Join(parts, sep) ==
    IF parts = <<>> THEN <<>>
    ELSE IF Len(parts) = 1 THEN parts[1]
    ELSE parts[1] \o <<sep>> \o Join(Tail(parts), sep)

\* the built-in template of SQLGenerator.render
DefaultTemplate ==
    << [ph |-> FALSE, s |-> "-- Show Your Work: "],
       [ph |-> TRUE, s |-> "fact_table"],
       [ph |-> FALSE, s |-> " / "],
       [ph |-> TRUE, s |-> "time_column"],
       [ph |-> FALSE, s |-> " / "],
       [ph |-> TRUE, s |-> "measure_column"],
       [ph |-> FALSE, s |-> "\nSELECT "],
       [ph |-> TRUE, s |-> "time_bucket"],
       [ph |-> FALSE, s |-> " AS time_bucket, SUM("],
       [ph |-> TRUE, s |-> "measure_column"],
       [ph |-> FALSE, s |-> ") AS metric\nFROM "],
       [ph |-> TRUE, s |-> "fact_table"],
       [ph |-> FALSE, s |-> "\nWHERE "],
       [ph |-> TRUE, s |-> "time_column"],
       [ph |-> FALSE, s |-> " IS NOT NULL AND "],
       [ph |-> TRUE, s |-> "where_clause"],
       [ph |-> FALSE, s |-> "\nGROUP BY "],
       [ph |-> TRUE, s |-> "time_bucket"],
       [ph |-> FALSE, s |-> "\nORDER BY "],
       [ph |-> TRUE, s |-> "time_bucket"],
       [ph |-> FALSE, s |-> ";"] >>

\* str.format(**slots): each field replaced by its slot's pieces
RECURSIVE Format(_, _)
Format(template, slots) ==
    IF template = <<>> THEN <<>>
    ELSE (IF Head(template).ph THEN slots[Head(template).s]
          ELSE <<Head(template).s>>)
         \o Format(Tail(template), slots)

\* the where_parts of SQLGenerator.render; the comment labels 时间范围, 口径,
\* 行业映射, 时间口径 are written in pinyin
where_parts(spec, state) ==
    LET d == SpecDef(spec)
        clar == state.clarifications
        note(slot, label) ==
            IF slot \in DOMAIN clar THEN << <<label, clar[slot].value>> >>
            ELSE <<>>
    IN  [i \in 1..Len(d.filters) |-> <<d.filters[i]>>]
        \o (IF state.intent.time_range # <<>>
            THEN << <<"-- shijianfanwei: ">> \o state.intent.time_range >>
            ELSE <<>>)
        \o note("metric_caliber", "-- koujing: ")
        \o note("industry_mapping", "-- hangyeyingshe: ")
        \o note("time_semantics", "-- shijiankoujing: ")

\* Faulty variant of render: the bucket is the intent's granularity when it
\* has one.
render_intent_bucket(spec, state) ==
    LET d == SpecDef(spec)
        parts == where_parts(spec, state)
        where_clause == IF parts # <<>> THEN Join(parts, "\n    AND ")
                        ELSE <<"1=1">>
        slots == [time_bucket |-> IF state.intent.granularity # None
                                  THEN <<state.intent.granularity>>
                                  ELSE <<d.time_granularity>>,
                  fact_table |-> <<d.fact_table>>,
                  time_column |-> <<d.time_column>>,
                  measure_column |-> <<d.measure_column>>,
                  where_clause |-> where_clause]
        template == IF d.sql_template # <<>> THEN d.sql_template
                    ELSE DefaultTemplate
    IN  Format(template, slots)


\* SQLGenerator.render: the SQL text, as the sequence of its pieces
render(spec, state) ==
    LET d == SpecDef(spec)
        parts == where_parts(spec, state)
        where_clause == IF parts # <<>> THEN Join(parts, "\n    AND ")
                        ELSE <<"1=1">>
        slots == [time_bucket |-> <<d.time_granularity>>,
                  fact_table |-> <<d.fact_table>>,
                  time_column |-> <<d.time_column>>,
                  measure_column |-> <<d.measure_column>>,
                  where_clause |-> where_clause]
        template == IF d.sql_template # <<>> THEN d.sql_template
                    ELSE DefaultTemplate
    IN  Format(template, slots)

\* ------------------------------------------------------------ MetricAgent

\* SessionState as its constructor leaves it (the session id is the place of
\* the record in `sessions`)
NewSession(user, intent) ==
    [user |-> user, intent |-> intent, candidates |-> <<>>,
     clarifications |-> <<>>, selected_spec |-> None, confidence |-> 0,
     route_expert |-> FALSE, conflict |-> NoConflict, forwarded_to |-> None]

\* Faulty variant of start_session: routing to the expert for a conflict or
\* for force_expert also withdraws the gate's selection.
start_session_routing_unselects(query, user, force_expert) ==
    LET intent == parse(query)
        s0 == [NewSession(user, intent) EXCEPT !.conflict = detect(intent)]
        keywords == IF intent.metrics # <<>> THEN intent.metrics ELSE <<query>>
        s1 == [s0 EXCEPT !.candidates = retrieve(keywords, DefaultTopK)]
        s2 == evaluate(s1)
    IN  IF s2.conflict # NoConflict \/ force_expert
        THEN [s2 EXCEPT !.route_expert = TRUE, !.selected_spec = None]
        ELSE s2


\* MetricAgent.start_session: the session it returns
start_session(query, user, force_expert) ==
    LET intent == parse(query)
        s0 == [NewSession(user, intent) EXCEPT !.conflict = detect(intent)]
        keywords == IF intent.metrics # <<>> THEN intent.metrics ELSE <<query>>
        s1 == [s0 EXCEPT !.candidates = retrieve(keywords, DefaultTopK)]
        s2 == evaluate(s1)
        s3 == IF s2.conflict # NoConflict
              THEN [s2 EXCEPT !.route_expert = TRUE] ELSE s2
    IN  IF force_expert THEN [s3 EXCEPT !.route_expert = TRUE] ELSE s3

\* Faulty variant of clarify: retrieval and the gate's confidence are run
\* again on the catalog as it is now.
clarify_retrieves_again(state, answers) ==
    LET s1 == [state EXCEPT
                  !.clarifications = apply_answers(@, answers)]
        keywords == IF s1.intent.metrics # <<>> THEN s1.intent.metrics
                    ELSE <<s1.intent.raw_query>>
        s2 == [s1 EXCEPT !.candidates = retrieve(keywords, DefaultTopK)]
        s3 == [s2 EXCEPT !.confidence = IF s2.candidates = <<>> THEN 0
                                        ELSE s2.candidates[1].score]
    IN  IF s3.candidates # <<>>
        THEN [s3 EXCEPT !.selected_spec = s3.candidates[1].spec]
        ELSE s3


\* Faulty variant of clarify: without answers there is nothing to do.
clarify_needs_answers(state, answers) ==
    LET s1 == [state EXCEPT
                  !.clarifications = apply_answers(@, answers)]
    IN  IF answers # <<>> /\ s1.candidates # <<>>
        THEN [s1 EXCEPT !.selected_spec = s1.candidates[1].spec]
        ELSE s1


\* Faulty variant of clarify: a caliber answer is also noted in the
\* intent's filters.
clarify_annotates_intent(state, answers) ==
    LET s1 == [state EXCEPT
                  !.clarifications = apply_answers(@, answers)]
        s2 == IF "metric_caliber" \in DOMAIN s1.clarifications
              THEN [s1 EXCEPT !.intent.filters =
                       Append(@, <<"koujingtiaozhengwei",
                                   s1.clarifications["metric_caliber"].value>>)]
              ELSE s1
    IN  IF s2.candidates # <<>>
        THEN [s2 EXCEPT !.selected_spec = s2.candidates[1].spec]
        ELSE s2


\* Faulty variant of clarify: a specification selected before stays.
clarify_keep_selection(state, answers) ==
    LET s1 == [state EXCEPT
                  !.clarifications = apply_answers(@, answers)]
    IN  IF s1.candidates # <<>> /\ s1.selected_spec = None
        THEN [s1 EXCEPT !.selected_spec = s1.candidates[1].spec]
        ELSE s1

\* MetricAgent.clarify: the session after it
clarify(state, answers) ==
    LET s1 == [state EXCEPT
                  !.clarifications = apply_answers(@, answers)]
    IN  IF s1.candidates # <<>>
        THEN [s1 EXCEPT !.selected_spec = s1.candidates[1].spec]
        ELSE s1

\* MetricAgent.generate_sql: what it returns or raises
generate_sql(state) ==
    IF state.selected_spec = None
    THEN [status |-> "ValueError", value |-> <<>>]
    ELSE [status |-> "ok", value |-> render(state.selected_spec, state)]

\* Faulty variant of apply_expert_decision: a candidate handed in is applied
\* also when the session has no candidates.
apply_expert_decision_given_first(state, spec) ==
    LET chosen == IF spec # <<>> THEN spec[1].spec
                  ELSE IF state.candidates # <<>>
                  THEN state.candidates[1].spec
                  ELSE None
    IN  IF chosen # None THEN expert_apply(state, chosen) ELSE state


\* MetricAgent.apply_expert_decision: the session after it.  `spec` is <<>>
\* for no candidate given and <<c>> for the candidate c.  The conditional
\* expression spans the whole right-hand side:
\*   chosen = ((spec or candidates[0]).spec) if candidates else None
apply_expert_decision(state, spec) ==
    LET chosen == IF state.candidates # <<>>
                  THEN (IF spec # <<>> THEN spec[1]
                        ELSE state.candidates[1]).spec
                  ELSE None
    IN  IF chosen # None THEN expert_apply(state, chosen) ELSE state

\* Faulty variant of resolve_conflict: resolving the notice also withdraws
\* the routing to the expert.
resolve_conflict_unroutes(state, option_id) ==
    IF state.conflict = NoConflict THEN state
    ELSE
      LET options == state.conflict[1].options
          hits == {i \in 1..Len(options) : options[i].option_id = option_id}
      IN  IF hits = {} THEN state
          ELSE LET option == options[CHOOSE i \in hits : \A j \in hits : i <= j]
               IN  [state EXCEPT
                      !.intent = apply_conflict_option(@, option),
                      !.conflict = NoConflict,
                      !.route_expert = FALSE]


\* Faulty variant of resolve_conflict: the option is applied and the notice
\* stays open.
resolve_conflict_keep_open(state, option_id) ==
    IF state.conflict = NoConflict THEN state
    ELSE
      LET options == state.conflict[1].options
          hits == {i \in 1..Len(options) : options[i].option_id = option_id}
      IN  IF hits = {} THEN state
          ELSE LET option == options[CHOOSE i \in hits : \A j \in hits : i <= j]
               IN  [state EXCEPT !.intent = apply_conflict_option(@, option)]


\* Faulty variant of resolve_conflict: an option id that matches no option
\* applies the first option.
resolve_conflict_default_first(state, option_id) ==
    IF state.conflict = NoConflict THEN state
    ELSE
      LET options == state.conflict[1].options
          hits == {i \in 1..Len(options) : options[i].option_id = option_id}
          option == IF hits = {} THEN options[1]
                    ELSE options[CHOOSE i \in hits : \A j \in hits : i <= j]
      IN  [state EXCEPT
             !.intent = apply_conflict_option(@, option),
             !.conflict = NoConflict]

\* MetricAgent.resolve_conflict: the session after it
resolve_conflict(state, option_id) ==
    IF state.conflict = NoConflict THEN state
    ELSE
      LET options == state.conflict[1].options
          hits == {i \in 1..Len(options) : options[i].option_id = option_id}
      IN  IF hits = {} THEN state
          ELSE LET option == options[CHOOSE i \in hits : \A j \in hits : i <= j]
               IN  [state EXCEPT
                      !.intent = apply_conflict_option(@, option),
                      !.conflict = NoConflict]

\* ------------------------------------------------------------------ inputs

\* 结算GMV当日, 12月行业GMV走势, 结算成交额, 日订单转化
Queries ==
    { W_settle \o W_GMV \o <<"dang", "ri">>,
      <<"1", "2", "yue">> \o W_industry \o W_GMV \o <<"zou", "shi">>,
      W_settle \o W_turnover,
      <<"ri">> \o W_order \o W_convert }

Users == {"alice"}

\* ClarificationAnswer values: for the caliber 支付 and 退款 (the second is
\* not among the question's options), and an answer for a slot the question
\* bank does not have
AnswerChoices ==
    { [slot |-> "metric_caliber", value |-> "zhifu"],
      [slot |-> "metric_caliber", value |-> "tuikuan"],
      [slot |-> "region", value |-> "huadong"] }

\* the answer lists of at most n answers
RECURSIVE AnswerLists(_)
AnswerLists(n) ==
    IF n = 0 THEN {<<>>}
    ELSE AnswerLists(n - 1)
         \cup {Append(l, a) : l \in AnswerLists(n - 1), a \in AnswerChoices}

\* candidates a caller hands to apply_expert_decision: none, or an explicit
\* Candidate object
ExplicitCandidates == {<<>>, <<[spec |-> "custom", score |-> 255]>>}

\* objects a caller inserts into the cold and into the hot pool
ColdInserts == {"custom", "settle_rev"}
HotInserts == {"settle_rev"}

\* spec ids a caller bumps or promotes directly
CallerSpecIds == {"spec_settle_gmv_v1", "spec_pay_gmv_v1", "spec_unknown"}

OptionIds == {"settle_weekly", "switch_pay", "keep_both"}

\* A behaviour follows one session.  Sessions are separate records that
\* share only the catalog, and what other sessions do to the catalog is
\* among the catalog operations.
SessionIds == {1}

\* the keyword lists retrieve is called with: those start_session derives
\* from the queries (intent.metrics or [query]), and the empty list
RetrieveKeywords ==
    {<<>>} \cup {IF parse(q).metrics # <<>> THEN parse(q).metrics ELSE <<q>> :
                    q \in Queries}

\* the top_k values retrieve is called with
TopKs == 0..MaxTopK

\* the answer lists a caller passes to clarify
ClarifyInputs == AnswerLists(MaxAnswers)

\* ------------------------------------------------------------------ actions

\* what a call returned or raised: a status ("ok", or the exception or HTTP
\* error) and the returned value, <<>> for None
Ret(status, value) == [status |-> status, value |-> value]

\* Threads that each call AssetStore.bump_usage once.  The store has no
\* lock, and `spec.meta.usage_count += 1` reads the counter, adds and
\* writes it back (LOAD_ATTR, BINARY_OP, STORE_ATTR): another thread may run
\* between the read and the write.
MaxThreads == 2
Threads == 1..MaxThreads

\* a thread that has not called bump_usage yet
NotCalled == [pc |-> "idle", spec_id |-> None, spec |-> None, read |-> 0]

\* An AssetStore as a caller of the library has constructed and loaded it:
\* empty (AssetStore()), loaded with the default specifications by add_cold,
\* or with a hot revision added beside them by add_hot.
InitialStores ==
    { [cold |-> <<>>, hot |-> <<>>],
      [cold |-> DefaultSpecs, hot |-> <<>>],
      [cold |-> DefaultSpecs, hot |-> <<"settle_rev">>] }

Init ==
    /\ \E st \in InitialStores : cold = st.cold /\ hot = st.hot
    /\ meta = [o \in Objs |-> [status |-> SpecDef(o).status,
                               usage_count |-> SpecDef(o).usage_count]]
    /\ sessions = <<>>
    /\ result = Ret("ok", <<>>)
    /\ changes = 0
    /\ bumps = [t \in Threads |-> NotCalled]

\* The HTTP program after import: app.py builds one store and loads the
\* default specifications into the cold pool (lines 20-22); there are no
\* sessions yet.
HttpInit ==
    /\ cold = DefaultSpecs
    /\ hot = <<>>
    /\ meta = [o \in Objs |-> [status |-> SpecDef(o).status,
                               usage_count |-> SpecDef(o).usage_count]]
    /\ sessions = <<>>
    /\ result = Ret("ok", <<>>)
    /\ changes = 0
    /\ bumps = [t \in Threads |-> NotCalled]

\* a catalog operation counts when it changes the catalog, and MaxCatalogChanges
\* bounds the count
Counted ==
    /\ changes' = IF catalog' # catalog THEN changes + 1 ELSE changes
    /\ changes' <= MaxCatalogChanges
    /\ UNCHANGED bumps

AddCold(o) ==
    /\ cold' = DictPut(cold, o)
    /\ result' = Ret("ok", <<>>)
    /\ UNCHANGED <<hot, meta, sessions>>
    /\ Counted

AddHot(o) ==
    /\ hot' = DictPut(hot, o)
    /\ result' = Ret("ok", <<>>)
    /\ UNCHANGED <<cold, meta, sessions>>
    /\ Counted

MarkVerified(spec_id) ==
    /\ meta' = mark_verified(spec_id)
    /\ result' = Ret("ok", <<>>)
    /\ UNCHANGED <<cold, hot, sessions>>
    /\ Counted

BumpUsage(spec_id) ==
    /\ meta' = bump_usage(spec_id)
    /\ result' = Ret("ok", <<>>)
    /\ UNCHANGED <<cold, hot, sessions>>
    /\ Counted

\* Faulty variant of StartSession: retrieval counts a use of the top
\* candidate.
StartSession_bumps_top(query, user, force_expert) ==
    /\ Len(sessions) + 1 \in SessionIds
    /\ sessions' = Append(sessions, start_session(query, user, force_expert))
    /\ meta' = LET c == start_session(query, user, force_expert).candidates
               IN  IF c = <<>> THEN meta
                   ELSE [meta EXCEPT ![c[1].spec].usage_count = @ + 1]
    /\ result' = Ret("ok", <<>>)
    /\ UNCHANGED <<cold, hot, changes, bumps>>

StartSession(query, user, force_expert) ==
    /\ Len(sessions) + 1 \in SessionIds
    /\ sessions' = Append(sessions, start_session(query, user, force_expert))
    /\ result' = Ret("ok", <<>>)
    /\ UNCHANGED <<catalog, changes, bumps>>

Clarify(sid, answers) ==
    /\ sid \in DOMAIN sessions
    /\ sessions' = [sessions EXCEPT ![sid] = clarify(@, answers)]
    /\ result' = Ret("ok", <<>>)
    /\ UNCHANGED <<catalog, changes, bumps>>

GenerateSql(sid) ==
    /\ sid \in DOMAIN sessions
    /\ LET r == generate_sql(sessions[sid])
       IN  result' = Ret(r.status, r.value)
    /\ UNCHANGED <<catalog, sessions, changes, bumps>>

RouteToExpert(sid) ==
    /\ sid \in DOMAIN sessions
    /\ result' = Ret("ok", route(sessions[sid]))
    /\ UNCHANGED <<catalog, sessions, changes, bumps>>

ApplyExpertDecision(sid, spec) ==
    /\ sid \in DOMAIN sessions
    /\ sessions' = [sessions EXCEPT ![sid] = apply_expert_decision(@, spec)]
    /\ result' = Ret("ok", <<>>)
    /\ UNCHANGED <<catalog, changes, bumps>>

ResolveConflict(sid, option_id) ==
    /\ sid \in DOMAIN sessions
    /\ sessions' = [sessions EXCEPT ![sid] = resolve_conflict(@, option_id)]
    /\ result' = Ret("ok", <<>>)
    /\ UNCHANGED <<catalog, changes, bumps>>

\* the catalog operations
CatalogOp ==
    \/ \E o \in ColdInserts : AddCold(o)
    \/ \E o \in HotInserts : AddHot(o)
    \/ \E id \in CallerSpecIds : MarkVerified(id)
    \/ \E id \in CallerSpecIds : BumpUsage(id)

\* the operations of MetricAgent
EngineOp ==
    \/ \E q \in Queries, u \in Users, f \in BOOLEAN : StartSession(q, u, f)
    \/ \E sid \in SessionIds, a \in ClarifyInputs : Clarify(sid, a)
    \/ \E sid \in SessionIds : GenerateSql(sid)
    \/ \E sid \in SessionIds : RouteToExpert(sid)
    \/ \E sid \in SessionIds, c \in ExplicitCandidates :
          ApplyExpertDecision(sid, c)
    \/ \E sid \in SessionIds, id \in OptionIds : ResolveConflict(sid, id)

EngineNext == CatalogOp \/ EngineOp

\* sessions driven through MetricAgent only
EngineSpec == Init /\ [][EngineNext]_vars

\* ------------------------------------------------------------ HTTP handlers

\* a session id the registry never holds
UnknownSession == Cardinality(SessionIds) + 1

\* session ids a request names
RequestSessionIds == SessionIds \cup {UnknownSession}

\* the (session_id, input) pairs of the requests: every input for the ids
\* the registry may hold, one input for the unknown id
Requests(inputs) ==
    {<<sid, x>> : sid \in SessionIds, x \in inputs}
    \cup {<<UnknownSession, CHOOSE x \in inputs : TRUE>>}

\* payload.get("forward_to") or "": the reviewer a request names
ForwardTargets == {"lead@datateam.com"}

\* the answer lists of a 'revise' request: none, or one answer
ReviseInputs == AnswerLists(1)

\* next(c for c in state.candidates if c.spec.spec_id == spec_id, None):
\* <<c>> or <<>>
MatchCandidate(state, spec_id) ==
    LET hits == {i \in 1..Len(state.candidates) :
                    SpecIdOf(state.candidates[i].spec) = spec_id}
    IN  IF hits = {} THEN <<>>
        ELSE <<state.candidates[CHOOSE i \in hits : \A j \in hits : i <= j]>>

\* the payloads of /api/expert/decision
ExpertRequests ==
    {[action |-> "confirm", spec_id |-> id, answers |-> <<>>, forward_to |-> ""] :
        id \in CallerSpecIds}
    \cup {[action |-> "revise", spec_id |-> None, answers |-> a, forward_to |-> ""] :
        a \in ReviseInputs}
    \cup {[action |-> "forward", spec_id |-> None, answers |-> <<>>, forward_to |-> f] :
        f \in ForwardTargets}
    \cup {[action |-> "ignore", spec_id |-> None, answers |-> <<>>, forward_to |-> ""]}

\* Faulty variant of expert_decision: forwarding a session withdraws its
\* selection.
expert_decision_forward_unselects(state, req) ==
    CASE req.action = "confirm" ->
           apply_expert_decision(state, MatchCandidate(state, req.spec_id))
      [] req.action = "revise" ->
           [clarify(state, req.answers) EXCEPT !.route_expert = FALSE]
      [] req.action = "forward" ->
           [state EXCEPT !.forwarded_to = req.forward_to,
                         !.selected_spec = None]
      [] OTHER -> state


\* Faulty variant of expert_decision: 'confirm' applies the specification
\* the store holds under the spec id now.
expert_decision_confirm_from_store(state, req) ==
    CASE req.action = "confirm" ->
           IF BumpTarget(req.spec_id) # None
           THEN expert_apply(state, BumpTarget(req.spec_id))
           ELSE apply_expert_decision(state, MatchCandidate(state, req.spec_id))
      [] req.action = "revise" ->
           [clarify(state, req.answers) EXCEPT !.route_expert = FALSE]
      [] req.action = "forward" ->
           [state EXCEPT !.forwarded_to = req.forward_to]
      [] OTHER -> state


\* the session after the action branch of _handle_expert_decision
expert_decision(state, req) ==
    CASE req.action = "confirm" ->
           apply_expert_decision(state, MatchCandidate(state, req.spec_id))
      [] req.action = "revise" ->
           [clarify(state, req.answers) EXCEPT !.route_expert = FALSE]
      [] req.action = "forward" ->
           [state EXCEPT !.forwarded_to = req.forward_to]
      [] OTHER -> state

NotFound == Ret("404", <<>>)
BadRequest == Ret("400", <<>>)

\* a handler that found no session: the error response, nothing changed
Rejected(response) ==
    /\ result' = response
    /\ UNCHANGED <<catalog, sessions, changes, bumps>>

HandleStart(query, user) ==
    /\ Len(sessions) + 1 \in SessionIds
    /\ sessions' = Append(sessions, start_session(query, user, FALSE))
    /\ result' = Ret("200", <<>>)
    /\ UNCHANGED <<catalog, changes, bumps>>

HandleClarify(sid, answers) ==
    IF sid \notin DOMAIN sessions THEN Rejected(NotFound)
    ELSE /\ sessions' = [sessions EXCEPT ![sid] = clarify(@, answers)]
         /\ result' = Ret("200", <<>>)
         /\ UNCHANGED <<catalog, changes, bumps>>

HandleExpertDecision(sid, req) ==
    IF sid \notin DOMAIN sessions THEN Rejected(NotFound)
    ELSE IF req.action = "confirm"
            /\ MatchCandidate(sessions[sid], req.spec_id) = <<>>
    THEN Rejected(BadRequest)
    ELSE /\ sessions' = [sessions EXCEPT ![sid] = expert_decision(@, req)]
         /\ result' = Ret("200", <<>>)
         /\ UNCHANGED <<catalog, changes, bumps>>

HandleResolveConflict(sid, option_id) ==
    IF sid \notin DOMAIN sessions THEN Rejected(NotFound)
    ELSE /\ sessions' = [sessions EXCEPT ![sid] = resolve_conflict(@, option_id)]
         /\ result' = Ret("200", <<>>)
         /\ UNCHANGED <<catalog, changes, bumps>>

\* Faulty variant of HandleSelect: a spec id that is not among the
\* candidates selects the top candidate.
HandleSelect_fallback_top(sid, spec_id) ==
    IF sid \notin DOMAIN sessions THEN Rejected(NotFound)
    ELSE IF sessions[sid].candidates = <<>>
    THEN Rejected(BadRequest)
    ELSE /\ sessions' = [sessions EXCEPT ![sid].selected_spec =
                            IF MatchCandidate(sessions[sid], spec_id) # <<>>
                            THEN MatchCandidate(sessions[sid], spec_id)[1].spec
                            ELSE sessions[sid].candidates[1].spec]
         /\ meta' = bump_usage(spec_id)
         /\ result' = Ret("200", <<>>)
         /\ UNCHANGED <<cold, hot>>
         /\ Counted


HandleSelect(sid, spec_id) ==
    IF sid \notin DOMAIN sessions THEN Rejected(NotFound)
    ELSE IF MatchCandidate(sessions[sid], spec_id) = <<>>
    THEN Rejected(BadRequest)
    ELSE /\ sessions' = [sessions EXCEPT ![sid].selected_spec =
                            MatchCandidate(sessions[sid], spec_id)[1].spec]
         /\ meta' = bump_usage(spec_id)
         /\ result' = Ret("200", <<>>)
         /\ UNCHANGED <<cold, hot>>
         /\ Counted

\* Faulty variant of HandleGenerateSql: the usage bump comes first, for the
\* selected specification or else the top candidate, and generate_sql after.
HandleGenerateSql_bump_first(sid) ==
    IF sid \notin DOMAIN sessions THEN Rejected(NotFound)
    ELSE LET s == sessions[sid]
             r == generate_sql(s)
             target == IF s.selected_spec # None THEN s.selected_spec
                       ELSE IF s.candidates # <<>> THEN s.candidates[1].spec
                       ELSE None
         IN  /\ meta' = IF target = None THEN meta
                        ELSE bump_usage(SpecIdOf(target))
             /\ result' = IF r.status # "ok" THEN Ret(r.status, r.value)
                          ELSE Ret("200", r.value)
             /\ UNCHANGED <<cold, hot, sessions>>
             /\ Counted

HandleGenerateSql(sid) ==
    IF sid \notin DOMAIN sessions THEN Rejected(NotFound)
    ELSE LET r == generate_sql(sessions[sid])
         IN  IF r.status # "ok"
             THEN \* the exception leaves the handler before the bump
                  /\ result' = Ret(r.status, r.value)
                  /\ UNCHANGED <<catalog, sessions, changes, bumps>>
             ELSE /\ meta' = bump_usage(SpecIdOf(sessions[sid].selected_spec))
                  /\ result' = Ret("200", r.value)
                  /\ UNCHANGED <<cold, hot, sessions>>
                  /\ Counted

\* the requests of app.py
HttpOp ==
    \/ \E q \in Queries, u \in Users : HandleStart(q, u)
    \/ \E r \in Requests(ClarifyInputs) : HandleClarify(r[1], r[2])
    \/ \E r \in Requests(ExpertRequests) : HandleExpertDecision(r[1], r[2])
    \/ \E r \in Requests(OptionIds) : HandleResolveConflict(r[1], r[2])
    \/ \E r \in Requests(CallerSpecIds) : HandleSelect(r[1], r[2])
    \/ \E sid \in RequestSessionIds : HandleGenerateSql(sid)

HttpNext == CatalogOp \/ HttpOp

\* sessions driven through the HTTP handlers only, over the store app.py
\* loads
HttpSpec == HttpInit /\ [][HttpNext]_vars

Next == CatalogOp \/ EngineOp \/ HttpOp

Spec == Init /\ [][Next]_vars

\* ------------------------------------------- concurrent calls of bump_usage

\* thread t calls store.bump_usage(spec_id)
BumpCall(t, spec_id) ==
    /\ bumps[t].pc = "idle"
    /\ bumps' = [bumps EXCEPT ![t] = [pc |-> "lookup", spec_id |-> spec_id,
                                       spec |-> None, read |-> 0]]
    /\ UNCHANGED <<catalog, sessions, result, changes>>

\* line 31: spec = self.hot_specs.get(spec_id) or self.cold_specs.get(spec_id)
BumpLookup(t) ==
    /\ bumps[t].pc = "lookup"
    /\ bumps' = [bumps EXCEPT
                    ![t].pc = "found",
                    ![t].spec = BumpTarget(bumps[t].spec_id)]
    /\ UNCHANGED <<catalog, sessions, result, changes>>

\* lines 32-33, first half: `if spec:` and the read of spec.meta.usage_count;
\* without a specification the call returns
BumpRead(t) ==
    /\ bumps[t].pc = "found"
    /\ bumps' = IF bumps[t].spec = None
                THEN [bumps EXCEPT ![t].pc = "done"]
                ELSE [bumps EXCEPT
                         ![t].pc = "read",
                         ![t].read = meta[bumps[t].spec].usage_count]
    /\ UNCHANGED <<catalog, sessions, result, changes>>

\* line 33, second half: the value read, plus one, is written back
BumpWrite(t) ==
    /\ bumps[t].pc = "read"
    /\ bumps' = [bumps EXCEPT ![t].pc = "done"]
    /\ meta' = [meta EXCEPT ![bumps[t].spec].usage_count = bumps[t].read + 1]
    /\ UNCHANGED <<cold, hot, sessions, result, changes>>

BumpNext ==
    \/ \E t \in Threads, spec_id \in CallerSpecIds : BumpCall(t, spec_id)
    \/ \E t \in Threads : BumpLookup(t)
    \/ \E t \in Threads : BumpRead(t)
    \/ \E t \in Threads : BumpWrite(t)

\* concurrent bumps alone, on a store the caller has filled
BumpSpec == Init /\ [][BumpNext]_vars

\* ================================================================ properties

\* ------------------------------------------------- scoring and the gate

\* The largest usage_count a catalog entry starts with; the usage bonus of
\* _score_spec is capped from a count of 10 on.
MaxUsage == 12

\* meta.status and meta.usage_count as a MetricSpec may carry them when a
\* session starts: draft or verified, never used or used MaxUsage times
MetaChoices ==
    {[status |-> st, usage_count |-> n] :
        st \in {"draft", "verified"}, n \in {0, MaxUsage}}

\* the stores of InitialStores, and a store that holds a single entry
ScoreStores == InitialStores \cup {[cold |-> <<"custom">>, hot |-> <<>>]}

\* a store whose entries carry any status and usage count
ScoreInit ==
    /\ \E st \in ScoreStores : cold = st.cold /\ hot = st.hot
    /\ \E m \in [Objs -> MetaChoices] :
          meta = [o \in Objs |->
                    IF o \in Range(cold) \cup Range(hot) THEN m[o]
                    ELSE [status |-> SpecDef(o).status,
                          usage_count |-> SpecDef(o).usage_count]]
    /\ sessions = <<>>
    /\ result = Ret("ok", <<>>)
    /\ changes = 0
    /\ bumps = [t \in Threads |-> NotCalled]

ScoreNext ==
    \E q \in Queries, u \in Users, f \in BOOLEAN : StartSession(q, u, f)

\* start_session on a catalog of any statuses and usage counts
ScoreSpec == ScoreInit /\ [][ScoreNext]_vars

\* ---------------------------------------------------------------------- C1

\* top and second scores a caller may set by hand, on and beside the
\* thresholds: decimals exactly 0.15 apart whose doubles are less than 0.15
\* apart (0.95 and 0.80) and at least 0.15 apart (0.90 and 0.75), a top score
\* on and just below 0.85 and 0.65, a margin of 0.149
ThresholdScores ==
    { <<950, 800>>, <<900, 750>>, <<850, 700>>, <<849, 699>>,
      <<1000, 851>>, <<650, 500>>, <<649, 499>> }

\* the session with the scores of its first two candidates set to pair
WithScores(s, pair) ==
    [s EXCEPT !.candidates[1].score = pair[1],
              !.candidates[2].score = pair[2]]

\* the session as the gate may find it: as it is, as start_session hands
\* it over (nothing selected, not routed, confidence 0), and with the scores
\* of its first two candidates set by the caller
GateInputs(s) ==
    LET fresh == [s EXCEPT !.selected_spec = None, !.route_expert = FALSE,
                           !.confidence = 0]
    IN  {s, fresh}
          \cup (IF Len(s.candidates) >= 2
                THEN {WithScores(fresh, pair) : pair \in ThresholdScores}
                ELSE {})

\* s1 - s2 >= 0.15 of the scores s1 and s2 themselves: the two doubles, as
\* real numbers, are at least 0.15 apart.  For decimals exactly 0.15 apart
\* the doubles differ from them by RoundErr, and the one of s1 must not be
\* the smaller.
AtLeastMarginApart(s1, s2) ==
    IF s1 - s2 # 150 THEN s1 - s2 > 150
    ELSE RoundErr(s1) >= RoundErr(s2)

\* C1: on a session with candidates, s1 the top score and s2 the second
\* score (0 without a second candidate), evaluate sets confidence to s1;
\* when s1 >= 0.85 and s1 - s2 >= 0.15 it selects the top candidate's spec
\* and clears route_expert; otherwise it selects nothing and sets
\* route_expert to false when s1 >= 0.65 and to true when s1 < 0.65.  The
\* scores are the doubles the session holds: 0.95 and 0.80 are less than
\* 0.15 apart.
C1_GateContract ==
    \A sid \in DOMAIN sessions : \A s \in GateInputs(sessions[sid]) :
        s.candidates # <<>> =>
            LET s1 == s.candidates[1].score
                s2 == IF Len(s.candidates) >= 2 THEN s.candidates[2].score
                      ELSE 0
                post == evaluate(s)
            IN  IF s1 >= 850 /\ AtLeastMarginApart(s1, s2)
                THEN post = [s EXCEPT !.confidence = s1,
                                      !.selected_spec = s.candidates[1].spec,
                                      !.route_expert = FALSE]
                ELSE post = [s EXCEPT !.confidence = s1,
                                      !.route_expert = (s1 < 650)]

\* a session start_session returned with the top of several candidates
\* selected by the gate
C1_Witness ==
    \E sid \in DOMAIN sessions :
        LET s == sessions[sid]
        IN  /\ Len(s.candidates) >= 2
            /\ s.candidates[1].score >= 850
            /\ s.candidates[1].score - s.candidates[2].score >= 150
            /\ s.clarifications = <<>>
            /\ s.selected_spec = s.candidates[1].spec
            /\ s.confidence = s.candidates[1].score
            /\ ~s.route_expert

\* ---------------------------------------------------------------------- C2

\* C2: a session started by start_session and driven by clarify,
\* resolve_conflict, apply_expert_decision, route_to_expert and generate_sql
\* has confidence 0 and route_expert true whenever its candidate list is
\* empty (as it is for every query and force_expert on an empty catalog).
C2_EmptyCandidatesRouted ==
    \A sid \in DOMAIN sessions :
        sessions[sid].candidates = <<>> =>
            sessions[sid].confidence = 0 /\ sessions[sid].route_expert

\* a session without candidates that clarify and generate_sql have acted on
C2_Witness ==
    \E sid \in DOMAIN sessions :
        /\ sessions[sid].candidates = <<>>
        /\ sessions[sid].clarifications # <<>>
        /\ sessions[sid].route_expert
        /\ result.status = "ValueError"

\* ---------------------------------------------------------------------- C3

\* C3: generate_sql, called directly or through the HTTP handler, raises
\* and returns no SQL exactly when the session has no selected_spec, and
\* then the session and the catalog with its usage counters are unchanged.
C3_GenerateSqlPrecondition ==
    [][\A sid \in DOMAIN sessions :
          (/\ sessions' = sessions /\ cold' = cold /\ hot' = hot
           /\ GenerateSql(sid) \/ HandleGenerateSql(sid)) =>
              IF sessions[sid].selected_spec = None
              THEN /\ result'.status = "ValueError"
                   /\ result'.value = <<>>
                   /\ sessions' = sessions
                   /\ cold' = cold /\ hot' = hot /\ meta' = meta
              ELSE /\ result'.status \in {"ok", "200"}
                   /\ result'.value # <<>>]_vars

\* generate_sql has raised on a session that has candidates and no selection
C3_Witness ==
    \E sid \in DOMAIN sessions :
        /\ sessions[sid].selected_spec = None
        /\ sessions[sid].candidates # <<>>
        /\ result.status = "ValueError"

\* ---------------------------------------------------------------------- C4

\* C4: apply_expert_decision(session, c) with an explicit candidate c sets
\* selected_spec to c.spec and clears route_expert, whether or not the
\* session has candidates; without c and with candidates it selects the top
\* candidate's spec and clears route_expert; it leaves the session unchanged
\* only without c and without candidates.
C4_ExpertDecisionContract ==
    \A sid \in DOMAIN sessions : \A c \in ExplicitCandidates :
        LET pre == sessions[sid]
            post == apply_expert_decision(pre, c)
        IN  IF c # <<>>
            THEN post.selected_spec = c[1].spec /\ ~post.route_expert
            ELSE IF pre.candidates # <<>>
            THEN /\ post.selected_spec = pre.candidates[1].spec
                 /\ ~post.route_expert
            ELSE post = pre

\* ---------------------------------------------------------------------- C5

\* C5: clarify with at least one answer on a session with candidates ends
\* with selected_spec = candidates[0].spec, whatever the confidence, the
\* route_expert flag, the answers and the selection before the call.
C5_ClarifySelectsTop ==
    \A sid \in DOMAIN sessions : \A a \in ClarifyInputs :
        (a # <<>> /\ sessions[sid].candidates # <<>>) =>
            LET post == clarify(sessions[sid], a)
            IN  /\ post.candidates = sessions[sid].candidates
                /\ post.selected_spec = sessions[sid].candidates[1].spec

\* clarify has selected the top candidate of a session that the gate routed
\* to the expert with a confidence below 0.65
C5_Witness ==
    \E sid \in DOMAIN sessions :
        LET s == sessions[sid]
        IN  /\ s.candidates # <<>>
            /\ s.clarifications # <<>>
            /\ s.confidence < 650
            /\ s.route_expert
            /\ s.selected_spec = s.candidates[1].spec

\* ---------------------------------------------------------------------- C6

\* the slots a list of answers names
SlotsOf(answers) == {answers[i].slot : i \in 1..Len(answers)}

\* the last answer a list gives for a slot it names
LastAnswerFor(answers, slot) ==
    answers[CHOOSE i \in 1..Len(answers) :
               /\ answers[i].slot = slot
               /\ \A j \in (i + 1)..Len(answers) : answers[j].slot # slot]

\* C6: applying answers is last-write-wins per slot and idempotent: after
\* clarify on any session with any answers the mapping has one entry per
\* slot, holding for each slot given the last answer for it and for every
\* other slot what it held before, and clarify with the same answers again
\* leaves the mapping as it is.
C6_AnswersLastWriteWins ==
    \A sid \in DOMAIN sessions : \A a \in ClarifyInputs :
        LET pre == sessions[sid].clarifications
            once == clarify(sessions[sid], a)
            post == once.clarifications
        IN  /\ DOMAIN post = DOMAIN pre \cup SlotsOf(a)
            /\ \A slot \in DOMAIN post :
                  /\ post[slot].slot = slot
                  /\ post[slot] = IF slot \in SlotsOf(a)
                                  THEN LastAnswerFor(a, slot)
                                  ELSE pre[slot]
            /\ clarify(once, a).clarifications = post

\* a mapping with two slots, the caliber slot holding the answer 退款
C6_Witness ==
    \E sid \in DOMAIN sessions :
        LET clar == sessions[sid].clarifications
        IN  /\ DOMAIN clar = {"metric_caliber", "region"}
            /\ clar["metric_caliber"].value = "tuikuan"

\* ---------------------------------------------------------------------- C7

\* the option ids of the session's open conflict, none without one
OpenOptionIds(s) ==
    IF s.conflict = NoConflict THEN {}
    ELSE {s.conflict[1].options[i].option_id :
             i \in 1..Len(s.conflict[1].options)}

\* C7: resolve_conflict leaves every field of the session unchanged when
\* the session has no open conflict or the option id matches none of the
\* open conflict's options.
C7_ResolveConflictNoOp ==
    \A sid \in DOMAIN sessions : \A id \in OptionIds :
        id \notin OpenOptionIds(sessions[sid])
            => resolve_conflict(sessions[sid], id) = sessions[sid]

\* a session whose conflict was resolved before, with a selection and an
\* answer that a further resolve_conflict has to keep, right after an
\* engine call returned
C7_Witness ==
    \E sid \in DOMAIN sessions :
        LET s == sessions[sid]
        IN  /\ s.conflict = NoConflict
            /\ s.intent.filters # <<>>
            /\ s.selected_spec # None
            /\ s.clarifications # <<>>
            /\ result = Ret("ok", <<>>)

\* ---------------------------------------------------------------------- C8

\* the query holds the settlement marker 结算 and a daily marker (日 or 天,
\* which 当日 and 当天 contain), or is parsed with granularity 天
SettlementAndDaily(query) ==
    /\ Contains(query, <<"jie", "suan">>)
    /\ \/ Contains(query, <<"ri">>)
       \/ Contains(query, <<"tian">>)
       \/ parse(query).granularity = "tian"

\* C8: start_session, wherever a session can be started, attaches a
\* conflict notice exactly when the query holds 结算 and a daily marker, and
\* the notice has the two options settle_weekly and switch_pay; resolving
\* settle_weekly sets intent.granularity to 周 and clears the notice;
\* resolving switch_pay appends one caliber annotation to intent.filters,
\* keeps intent.granularity and clears the notice.
C8_ConflictNotice ==
    /\ Len(sessions) + 1 \in SessionIds =>
          \A q \in Queries, u \in Users, f \in BOOLEAN :
              LET s == start_session(q, u, f)
              IN  /\ (s.conflict # NoConflict) <=> SettlementAndDaily(q)
                  /\ s.conflict # NoConflict =>
                        /\ Len(s.conflict[1].options) = 2
                        /\ OpenOptionIds(s)
                              = {"settle_weekly", "switch_pay"}
    /\ \A sid \in DOMAIN sessions :
          LET pre == sessions[sid]
              weekly == resolve_conflict(pre, "settle_weekly")
              pay == resolve_conflict(pre, "switch_pay")
          IN  pre.conflict # NoConflict =>
                /\ weekly.intent.granularity = "zhou"
                /\ weekly.intent.filters = pre.intent.filters
                /\ weekly.conflict = NoConflict
                /\ pay.intent.filters
                      = Append(pre.intent.filters,
                               <<"koujingtiaozhengwei", "zhifu">>)
                /\ pay.intent.granularity = pre.intent.granularity
                /\ pay.conflict = NoConflict

\* a session whose settlement-against-daily conflict switch_pay resolved
C8_Witness ==
    \E sid \in DOMAIN sessions :
        LET s == sessions[sid]
        IN  /\ SettlementAndDaily(s.intent.raw_query)
            /\ s.conflict = NoConflict
            /\ s.intent.granularity = "tian"
            /\ Len(s.intent.filters) = 1

\* ---------------------------------------------------------------------- C9

\* the pieces that follow SELECT, GROUP BY and ORDER BY in SQL rendered from
\* the default template: its time-bucket expressions
TimeBuckets(sql) ==
    {sql[i + 1] : i \in {j \in 1..(Len(sql) - 1) :
                          sql[j] \in {"\nSELECT ", "\nGROUP BY ",
                                      "\nORDER BY "}}}

\* C9: once resolve_conflict has set the granularity to 周, the SQL that
\* generate_sql renders for the session from the default template has that
\* granularity as its time bucket in SELECT, GROUP BY and ORDER BY: 周, or
\* week, the word the catalog's grains have for it.
C9_WeeklyBucketRendered ==
    \A sid \in DOMAIN sessions :
        LET s == sessions[sid]
        IN  (/\ s.intent.granularity = "zhou"
             /\ s.selected_spec # None
             /\ SpecDef(s.selected_spec).sql_template = <<>>)
              => /\ TimeBuckets(generate_sql(s).value) # {}
                 /\ TimeBuckets(generate_sql(s).value) \subseteq {"zhou", "week"}

\* --------------------------------------------------------------------- C10

\* C10: for the catalog as it is, every keyword list and every top_k >= 0,
\* retrieve returns a list of non-increasing scores whose length is the
\* smaller of top_k and the number of enumerated catalog entries, and which
\* is empty for an empty catalog.  retrieve reads the catalog only, and the
\* catalog operations do not depend on the sessions, so the catalogs are
\* taken from the states before a session is started.
C10_RetrieveSortedTruncated ==
    sessions = <<>> =>
        \A kw \in RetrieveKeywords : \A k \in TopKs :
            LET r == retrieve(kw, k)
                n == Len(cold) + Len(hot)
            IN  /\ \A i \in 1..(Len(r) - 1) : r[i].score >= r[i + 1].score
                /\ Len(r) = IF k < n THEN k ELSE n
                /\ (cold = <<>> /\ hot = <<>>) => r = <<>>

\* a session whose five candidates start_session retrieved from six catalog
\* entries, with scores that differ
C10_Witness ==
    \E sid \in DOMAIN sessions :
        LET s == sessions[sid]
        IN  /\ Len(cold) + Len(hot) = 6
            /\ Len(s.candidates) = 5
            /\ s.candidates = retrieve(
                  IF s.intent.metrics # <<>> THEN s.intent.metrics
                  ELSE <<s.intent.raw_query>>, 5)
            /\ s.candidates[1].score > s.candidates[5].score

\* --------------------------------------------------------------------- C11

\* the places of get_all in the order retrieve has to return them: the best
\* score first, and of equal scores the earlier place first
RECURSIVE RankedPlaces(_, _)
RankedPlaces(places, score) ==
    IF places = {} THEN <<>>
    ELSE LET best == CHOOSE i \in places :
                        \A j \in places :
                            \/ score[i] > score[j]
                            \/ score[i] = score[j] /\ i <= j
         IN  <<best>> \o RankedPlaces(places \ {best}, score)

\* C11: entries of equal score come out of retrieve in catalog enumeration
\* order (the cold pool in insertion order, then the hot pool in insertion
\* order), and the cut at top_k keeps the earlier enumerated of them: the
\* result is the first top_k places of the enumeration ranked by score and,
\* among equal scores, by place.
C11_TiesInEnumerationOrder ==
    sessions = <<>> =>
        \A kw \in RetrieveKeywords : \A k \in TopKs :
            LET all == cold \o hot
                keywords == {Lower(w) : w \in Range(kw)}
                score == [i \in 1..Len(all) |-> _score_spec(all[i], keywords)]
                ranked == RankedPlaces(1..Len(all), score)
                r == retrieve(kw, k)
            IN  /\ Len(r) = IF k < Len(all) THEN k ELSE Len(all)
                /\ \A p \in 1..Len(r) :
                      r[p] = [spec |-> all[ranked[p]],
                              score |-> score[ranked[p]]]

\* a session whose candidates hold the cold settlement spec right before
\* its hot revision, at the same score, and not the last enumerated entry
C11_Witness ==
    \E sid \in DOMAIN sessions :
        LET c == sessions[sid].candidates
        IN  /\ Len(c) < Len(cold) + Len(hot)
            /\ \E p \in 1..(Len(c) - 1) :
                  /\ c[p].spec = "settle_v1" /\ c[p + 1].spec = "settle_rev"
                  /\ c[p].score = c[p + 1].score
            /\ "settle_v1" \in Range(cold) /\ "settle_rev" \in Range(hot)

\* --------------------------------------------------------------------- C12

\* the score as the claim computes it, in thousandths: name, aliases and
\* tags all lowercased
ClaimedScore(o, kw) ==
    LET keywords == {Lower(w) : w \in Range(kw)}
        tokens == {Lower(SpecDef(o).name)}
                  \cup {Lower(a) : a \in Range(SpecDef(o).aliases)}
                  \cup {Lower(g) : g \in Range(SpecDef(o).tags)}
        bonus == IF meta[o].usage_count >= 10 THEN 100
                 ELSE meta[o].usage_count * 10
    IN  600 * Cardinality(keywords \cap tokens)
        + (IF meta[o].status = "verified" THEN 300 ELSE 255)
        + bonus

\* C12: the score of a catalog entry is 0.6 times the number of lowercased
\* keywords equal to its lowercased name, a lowercased alias or a lowercased
\* tag, plus 0.3 times freshness (1.0 verified, else 0.85), plus
\* min(usage_count/100, 0.1); a tag written in upper case matches like its
\* lower-case form.
C12_ScoreFormula ==
    \A o \in Range(cold \o hot) : \A kw \in RetrieveKeywords :
        _score_spec(o, {Lower(w) : w \in Range(kw)}) = ClaimedScore(o, kw)

\* the information gain of a slot in a session: the number of distinct
\* values the current candidates imply for it
InfoGain(slot, state) ==
    Cardinality({SlotValues[state.candidates[i].spec][slot] :
        i \in {j \in 1..Len(state.candidates) :
                  slot \in DOMAIN SlotValues[state.candidates[j].spec]}})

\* the gain a slot is ranked with: a gain of 0 counts as 1 once a
\* specification is selected
RankGain(slot, state) ==
    IF InfoGain(slot, state) = 0 /\ state.selected_spec # None THEN 1
    ELSE InfoGain(slot, state)

\* the place of a slot in the question bank
BankPlace(slot) ==
    CHOOSE i \in 1..Len(QUESTION_BANK) : QUESTION_BANK[i].slot = slot

\* C13: next_questions returns only bank questions whose slot has no answer
\* in the session, at most max_questions of them, exactly the unanswered
\* slots of positive ranking gain (a gain of 0 counts as 1 when a
\* specification is selected and is omitted otherwise), ordered by gain
\* descending with ties in bank order.
C13_NextQuestionsRanked ==
    \A sid \in DOMAIN sessions :
        LET state == sessions[sid]
            q == next_questions(state)
            open == {s \in {QUESTION_BANK[i].slot : i \in 1..Len(QUESTION_BANK)} :
                        /\ s \notin DOMAIN state.clarifications
                        /\ RankGain(s, state) > 0}
        IN  /\ Len(q) <= max_questions
            /\ \A i \in 1..Len(q) : q[i].slot \in open
            /\ Len(q) = IF Cardinality(open) < max_questions
                        THEN Cardinality(open) ELSE max_questions
            /\ \A i, j \in 1..Len(q) :
                   i < j =>
                     \/ RankGain(q[i].slot, state) > RankGain(q[j].slot, state)
                     \/ /\ RankGain(q[i].slot, state) = RankGain(q[j].slot, state)
                        /\ BankPlace(q[i].slot) < BankPlace(q[j].slot)
            /\ \A s \in open :
                   (\A i \in 1..Len(q) : q[i].slot # s) =>
                     \A i \in 1..Len(q) :
                        \/ RankGain(q[i].slot, state) > RankGain(s, state)
                        \/ /\ RankGain(q[i].slot, state) = RankGain(s, state)
                           /\ BankPlace(q[i].slot) < BankPlace(s)

\* a session with a selected specification and an answered caliber, whose
\* candidates imply no industry mapping: the mapping question is offered
\* with gain 1, ahead of the equally ranked time question
C13_Witness ==
    \E sid \in DOMAIN sessions :
        LET state == sessions[sid]
            q == next_questions(state)
        IN  /\ state.selected_spec # None
            /\ "metric_caliber" \in DOMAIN state.clarifications
            /\ InfoGain("industry_mapping", state) = 0
            /\ InfoGain("time_semantics", state) = 1
            /\ Len(q) = 2
            /\ q[1].slot = "industry_mapping"
            /\ q[2].slot = "time_semantics"

\* how many of the session's candidates imply value v for a slot
ValueCount(slot, v, state) ==
    Cardinality({i \in 1..Len(state.candidates) :
        LET d == SlotValues[state.candidates[i].spec]
        IN  slot \in DOMAIN d /\ d[slot] = v})

\* C14: the recommended value of every question next_questions returns is
\* the selected specification's own value for the slot if a specification
\* is selected and has one; else a most frequent value for the slot across
\* the candidates; else the question bank's static default.
C14_RecommendedValue ==
    \A sid \in DOMAIN sessions :
        LET state == sessions[sid]
            q == next_questions(state)
        IN  \A i \in 1..Len(q) :
              LET slot == q[i].slot
                  rec == q[i].recommended
                  own == IF state.selected_spec = None THEN <<>>
                         ELSE SlotValues[state.selected_spec]
              IN  IF slot \in DOMAIN own THEN rec = own[slot]
                  ELSE IF InfoGain(slot, state) > 0
                  THEN /\ ValueCount(slot, rec, state) > 0
                       /\ \A j \in 1..Len(state.candidates) :
                            LET d == SlotValues[state.candidates[j].spec]
                            IN  slot \in DOMAIN d =>
                                  ValueCount(slot, d[slot], state)
                                    <= ValueCount(slot, rec, state)
                  ELSE rec = QUESTION_BANK[BankPlace(slot)].recommended

\* a session whose selected specification has its own time semantics, not
\* the candidates' most frequent one, and no caliber while the candidates
\* imply some: the first is recommended for the time question, the
\* candidates' most frequent caliber for the caliber question
C14_Witness ==
    \E sid \in DOMAIN sessions :
        LET state == sessions[sid]
            q == next_questions(state)
            own == IF state.selected_spec = None THEN <<>>
                   ELSE SlotValues[state.selected_spec]
        IN  \E i, j \in 1..Len(q) :
              /\ state.selected_spec # None
              /\ q[i].slot = "time_semantics"
              /\ q[i].recommended = own["time_semantics"]
              /\ \E v \in Range(CandidateValues("time_semantics", state)) :
                    ValueCount("time_semantics", v, state)
                      > ValueCount("time_semantics", q[i].recommended, state)
              /\ q[j].slot = "metric_caliber"
              /\ "metric_caliber" \notin DOMAIN own
              /\ ValueCount("metric_caliber", q[j].recommended, state) > 0

\* C15: in every reachable session state the confidence lies in [0, 1]
\* (0..1000 thousandths), whatever the catalog holds and the query is.
C15_ConfidenceInUnitInterval ==
    \A sid \in DOMAIN sessions :
        /\ sessions[sid].confidence >= 0
        /\ sessions[sid].confidence <= 1000

\* C16: the selected specification is a terminal choice: once a session has
\* one, no step changes it to a different specification.
C16_SelectionTerminal ==
    [][\A sid \in DOMAIN sessions :
          (sessions[sid].selected_spec # None /\ sid \in DOMAIN sessions')
            => sessions'[sid].selected_spec
                 \in {sessions[sid].selected_spec, None}]_vars

\* the pools hold disjoint sets of spec_id and get_all yields each spec_id
\* at most once
PoolsDisjoint(c, h) ==
    /\ {SpecIdOf(o) : o \in Range(c)} \cap {SpecIdOf(o) : o \in Range(h)} = {}
    /\ \A i, j \in 1..Len(c \o h) :
          SpecIdOf((c \o h)[i]) = SpecIdOf((c \o h)[j]) => i = j

\* C17: insertions keep the cold and hot pools disjoint in spec_id, and
\* get_all yields each spec_id at most once: no step takes a catalog with
\* unique spec_ids to one where a spec_id occurs twice.
C17_PoolsDisjoint ==
    [][PoolsDisjoint(cold, hot) => PoolsDisjoint(cold', hot')]_vars

\* C18: usage counters never decrease.  In every step the counter of every
\* specification stays or grows; bump_usage(spec_id) raises the counter of
\* one specification stored under that id by exactly 1 and leaves every
\* other one unchanged, and changes nothing when no specification of the
\* catalog has the id.
C18_UsageMonotone ==
    [][/\ \A o \in DOMAIN meta :
             meta'[o].usage_count >= meta[o].usage_count
       /\ \A spec_id \in CallerSpecIds :
             LET holders == {o \in Range(cold \o hot) : SpecIdOf(o) = spec_id}
             IN  IF holders = {} THEN bump_usage(spec_id) = meta
                 ELSE \E o \in holders :
                        bump_usage(spec_id) =
                            [meta EXCEPT ![o].usage_count = @ + 1]]_vars

\* the hot revision of the settlement specification has been bumped once
\* while the cold specification under the same id still counts 0, and a
\* session has selected a specification
C18_Witness ==
    /\ "settle_v1" \in Range(cold)
    /\ "settle_rev" \in Range(hot)
    /\ meta["settle_rev"].usage_count = 1
    /\ meta["settle_v1"].usage_count = 0
    /\ \E sid \in DOMAIN sessions : sessions[sid].selected_spec = "settle_rev"

\* C19: concurrent bumps lose no update.  Whatever the interleaving, the
\* counter of a specification is its initial value plus the number of
\* bump_usage calls that have incremented it; when the N calls for a spec_id
\* have all returned, the counter is exactly N higher.  bump_usage does not
\* provide this: two calls that both read the counter before either writes
\* leave it one higher, not two.
C19_NoLostUpdate ==
    \A o \in Range(cold \o hot) :
        meta[o].usage_count =
            SpecDef(o).usage_count
              + Cardinality({t \in Threads : /\ bumps[t].pc = "done"
                                              /\ bumps[t].spec = o})

\* C20: no operation of MetricAgent changes the catalog.  A step that
\* changes a pool, a status or a usage counter is an insertion, a usage bump
\* or a promotion, and is not start_session, clarify, generate_sql,
\* route_to_expert, apply_expert_decision or resolve_conflict.
C20_EngineLeavesCatalog ==
    [][catalog' # catalog => (CatalogOp /\ ~EngineOp)]_vars

\* a session was started, clarified and rendered to SQL on the default
\* catalog, and the catalog is as the caller built it
C20_Witness ==
    /\ changes = 0
    /\ cold = DefaultSpecs
    /\ \A o \in Range(cold \o hot) :
          /\ meta[o].usage_count = SpecDef(o).usage_count
          /\ meta[o].status = SpecDef(o).status
    /\ \E sid \in DOMAIN sessions :
          /\ sessions[sid].candidates # <<>>
          /\ sessions[sid].clarifications # <<>>
          /\ sessions[sid].selected_spec # None
    /\ result.status = "ok"
    /\ result.value # <<>>

\* the query of demo.py: 12月行业GMV走势
DemoQuery == <<"1", "2", "yue">> \o W_industry \o W_GMV \o <<"zou", "shi">>

\* the catalog as app.py and demo.py load it and nothing has touched it
FreshDefaultCatalog ==
    /\ cold = DefaultSpecs
    /\ hot = <<>>
    /\ \A o \in Range(DefaultSpecs) :
          /\ meta[o].usage_count = 0
          /\ meta[o].status = SpecDef(o).status

\* the place of a specification among a session's candidates (0: absent)
CandidatePlace(state, o) ==
    IF \E i \in 1..Len(state.candidates) : state.candidates[i].spec = o
    THEN CHOOSE i \in 1..Len(state.candidates) : state.candidates[i].spec = o
    ELSE 0

\* piece b follows piece a somewhere in a rendered text
HasPieces(text, a, b) ==
    \E i \in 1..(Len(text) - 1) : text[i] = a /\ text[i + 1] = b

\* C21: on the fresh default catalog, start_session("12月行业GMV走势") ranks
\* spec_pay_gmv_v2 above spec_settle_gmv_v1, with confidence >= 0.65 and
\* route_expert false; once clarify has selected a specification,
\* generate_sql renders from dws_trade_order_day grouped by day.
C21_DemoScenario ==
    FreshDefaultCatalog =>
      \A user \in Users :
        LET s == start_session(DemoQuery, user, FALSE)
        IN  /\ CandidatePlace(s, "pay_v2") > 0
            /\ CandidatePlace(s, "settle_v1") > 0
            /\ CandidatePlace(s, "pay_v2") < CandidatePlace(s, "settle_v1")
            /\ s.confidence >= 650
            /\ s.route_expert = FALSE
            /\ \A answers \in ClarifyInputs :
                  LET r == generate_sql(clarify(s, answers))
                  IN  /\ clarify(s, answers).selected_spec # None
                      /\ r.status = "ok"
                      /\ HasPieces(r.value, ") AS metric\nFROM ",
                                   "dws_trade_order_day")
                      /\ HasPieces(r.value, "\nGROUP BY ", "day")

\* the demo session on the fresh default catalog, clarified and rendered
C21_Witness ==
    /\ FreshDefaultCatalog
    /\ changes = 0
    /\ \E sid \in DOMAIN sessions :
          /\ sessions[sid].intent.raw_query = DemoQuery
          /\ sessions[sid].clarifications # <<>>
          /\ sessions[sid].selected_spec = "pay_v2"
          /\ sessions[sid].confidence >= 650
          /\ sessions[sid].route_expert = FALSE
    /\ result.status = "ok"
    /\ HasPieces(result.value, ") AS metric\nFROM ", "dws_trade_order_day")
    /\ HasPieces(result.value, "\nGROUP BY ", "day")


\* C22: conflict lifecycle.  A resolve_conflict naming an option of the open
\* notice clears it; a notice that is empty stays empty in every step; and
\* at most one option is ever applied: the intent never has both the
\* granularity 周 and a caliber annotation in filters, and filters never
\* holds more than one annotation.
C22_ConflictLifecycle ==
    [][\A sid \in DOMAIN sessions :
          LET state == sessions[sid]
          IN  /\ \A id \in OpenOptionIds(state) :
                    resolve_conflict(state, id).conflict = NoConflict
              /\ (state.conflict = NoConflict /\ sid \in DOMAIN sessions')
                    => sessions'[sid].conflict = NoConflict
              /\ Len(state.intent.filters) <= 1
              /\ ~(state.intent.granularity = "zhou"
                   /\ state.intent.filters # <<>>)]_vars

\* a session whose notice was cleared by the option switch_pay: one
\* annotation, the granularity still 天, and the notice empty
C22_Witness ==
    \E sid \in DOMAIN sessions :
        /\ sessions[sid].conflict = NoConflict
        /\ sessions[sid].intent.filters = << <<"koujingtiaozhengwei", "zhifu">> >>
        /\ sessions[sid].intent.granularity = "tian"
        /\ sessions[sid].selected_spec # None


\* C23: the ParsedIntent of a session is changed by conflict resolution
\* only.  A step that changes a session's intent is a resolve_conflict step
\* (of the agent or of its HTTP handler) and is not a clarify,
\* apply_expert_decision, route_to_expert, generate_sql, select_spec or
\* expert-decision step.
C23_IntentFrame ==
    [][\A sid \in DOMAIN sessions :
          (sid \in DOMAIN sessions'
           /\ sessions'[sid].intent # sessions[sid].intent)
            => /\ \E id \in OptionIds :
                     ResolveConflict(sid, id) \/ HandleResolveConflict(sid, id)
               /\ ~ \E a \in ClarifyInputs :
                     Clarify(sid, a) \/ HandleClarify(sid, a)
               /\ ~ \E c \in ExplicitCandidates : ApplyExpertDecision(sid, c)
               /\ ~ RouteToExpert(sid)
               /\ ~ GenerateSql(sid)
               /\ ~ HandleGenerateSql(sid)
               /\ ~ \E id \in CallerSpecIds : HandleSelect(sid, id)
               /\ ~ \E req \in ExpertRequests : HandleExpertDecision(sid, req)]_vars

\* a session with an open conflict that was clarified, forwarded to a
\* reviewer and has a selection: its intent is still what parse returned
C23_Witness ==
    \E sid \in DOMAIN sessions :
        /\ sessions[sid].conflict # NoConflict
        /\ sessions[sid].clarifications # <<>>
        /\ sessions[sid].selected_spec # None
        /\ sessions[sid].forwarded_to # None
        /\ sessions[sid].intent = parse(sessions[sid].intent.raw_query)
        /\ result.status = "200"
        /\ result.value # <<>>


\* reviewer lists a MetricAgent may be configured with: none, fewer than
\* three, three, more than three
OwnerLists ==
    { <<>>,
      <<"owner@datateam.com">>,
      Owners,
      <<"owner@datateam.com", "lead@datateam.com", "qa@datateam.com">>,
      <<"lead@datateam.com", "owner@datateam.com", "qa@datateam.com",
        "ops@datateam.com">> }

\* C24: route_to_expert returns the first three configured reviewers in
\* configured order, all of them when fewer than three are configured, the
\* same list whatever the session is; a route_to_expert step changes no
\* session and returns that list for the configured reviewers.
C24_RouteToExpert ==
    [][/\ \A sid \in DOMAIN sessions : \A owners \in OwnerLists :
             LET r == route_from(owners, sessions[sid])
             IN  /\ Len(r) = IF Len(owners) < 3 THEN Len(owners) ELSE 3
                 /\ \A i \in 1..Len(r) : r[i] = owners[i]
       /\ \A sid \in DOMAIN sessions :
             RouteToExpert(sid) =>
                /\ sessions' = sessions
                /\ result'.value = route(sessions[sid])
                /\ route(sessions'[sid]) = route(sessions[sid])]_vars

\* route_to_expert has just returned the two configured reviewers for a
\* session routed to an expert
C24_Witness ==
    /\ result = Ret("ok", Owners)
    /\ \E sid \in DOMAIN sessions :
          /\ sessions[sid].route_expert
          /\ sessions[sid].selected_spec = None
          /\ route(sessions[sid]) = Owners


\* a session that has the time_range and the clarifications of `state` and
\* nothing else of it
RenderInputs(state) ==
    [NewSession("nobody",
                [raw_query |-> <<>>, metrics |-> <<>>, dimensions |-> <<>>,
                 time_range |-> state.intent.time_range,
                 granularity |-> None, filters |-> <<>>])
        EXCEPT !.clarifications = state.clarifications]

\* C25: rendering is pure and deterministic.  Whenever generate_sql is
\* called on a session, render of any specification gives the same text on
\* any two sessions that agree on intent.time_range and on clarifications
\* (each gives the text of the session holding just these two), and the
\* step changes no session and nothing of the catalog.
C25_RenderPure ==
    [][\A sid \in DOMAIN sessions :
          GenerateSql(sid) =>
             /\ \A o \in Objs :
                   render(o, sessions[sid])
                     = render(o, RenderInputs(sessions[sid]))
             /\ sessions' = sessions
             /\ catalog' = catalog
             /\ sessions[sid].selected_spec # None =>
                   result'.value = render(sessions[sid].selected_spec,
                                          RenderInputs(sessions[sid]))]_vars

\* SQL was rendered for a session that has, besides a time range and an
\* answer, a granularity, a resolved conflict's annotation and a selection
C25_Witness ==
    /\ result.status = "ok"
    /\ \E sid \in DOMAIN sessions :
          /\ sessions[sid].selected_spec # None
          /\ sessions[sid].intent.granularity # None
          /\ sessions[sid].intent.filters # <<>>
          /\ sessions[sid].clarifications # <<>>
          /\ sessions[sid] # RenderInputs(sessions[sid])
          /\ result.value = render(sessions[sid].selected_spec, sessions[sid])
          /\ result.value # <<>>


\* C26: needs_clarification is true exactly when the session has no
\* selected specification, whatever route_expert is.
C26_NeedsClarification ==
    \A sid \in DOMAIN sessions :
        /\ needs_clarification(sessions[sid])
             = (sessions[sid].selected_spec = None)
        /\ \A routed \in BOOLEAN :
             needs_clarification([sessions[sid] EXCEPT !.route_expert = routed])
               = (sessions[sid].selected_spec = None)

\* a session routed to an expert with no selection, after a call on it
\* returned: it needs clarification
C26_Witness ==
    \E sid \in DOMAIN sessions :
        /\ sessions[sid].route_expert
        /\ sessions[sid].selected_spec = None
        /\ sessions[sid].candidates # <<>>
        /\ needs_clarification(sessions[sid])
        /\ result.value = route(sessions[sid])
        /\ result.value # <<>>

\* a session that has a selection while route_expert is true: it needs no
\* clarification
C26_SelectedWhileRouted ==
    \E sid \in DOMAIN sessions :
        /\ sessions[sid].route_expert
        /\ sessions[sid].selected_spec # None
        /\ ~needs_clarification(sessions[sid])


\* the responses that report an error
ErrorResponses == {NotFound, BadRequest}

\* the step answered with an error and changed no session and nothing of the
\* catalog
RejectedUnchanged ==
    /\ result' \in ErrorResponses
    /\ sessions' = sessions
    /\ catalog' = catalog

\* C27: through the HTTP handlers, a request naming a session id that is
\* not in the registry (clarify, select_spec, generate_sql,
\* resolve_conflict, expert decision) or a spec id that is not among the
\* session's candidates (select_spec, expert decision 'confirm') is
\* answered with an error response and leaves every session and the
\* catalog unchanged.
C27_BadRequestsRejected ==
    [][/\ \A sid \in RequestSessionIds \ DOMAIN sessions :
             /\ \A a \in ClarifyInputs :
                   HandleClarify(sid, a) => RejectedUnchanged
             /\ \A id \in CallerSpecIds :
                   HandleSelect(sid, id) => RejectedUnchanged
             /\ HandleGenerateSql(sid) => RejectedUnchanged
             /\ \A id \in OptionIds :
                   HandleResolveConflict(sid, id) => RejectedUnchanged
             /\ \A req \in ExpertRequests :
                   HandleExpertDecision(sid, req) => RejectedUnchanged
       /\ \A sid \in DOMAIN sessions : \A id \in CallerSpecIds :
             MatchCandidate(sessions[sid], id) = <<>> =>
               /\ HandleSelect(sid, id) => RejectedUnchanged
               /\ \A req \in ExpertRequests :
                     (req.action = "confirm" /\ req.spec_id = id
                      /\ HandleExpertDecision(sid, req)) => RejectedUnchanged]_vars

\* a request named an unknown session id while the registry holds a
\* session with a selection, and was answered 404
C27_Witness ==
    /\ result = NotFound
    /\ UnknownSession \notin DOMAIN sessions
    /\ \E sid \in DOMAIN sessions :
          /\ sessions[sid].candidates # <<>>
          /\ sessions[sid].selected_spec # None

\* a request named a spec id that is not among the candidates of a session
\* that has candidates, and was answered 400
C27_BadSpecRejected ==
    /\ result = BadRequest
    /\ \E sid \in DOMAIN sessions :
          /\ sessions[sid].candidates # <<>>
          /\ \E id \in CallerSpecIds : MatchCandidate(sessions[sid], id) = <<>>


\* C28: for sessions driven through the HTTP handlers, a session with no
\* candidates always has confidence 0 and route_expert true.  Over the
\* store app.py loads the statement has no case: see C28_CandidatesNeverEmpty.
C28_NoCandidatesRouted ==
    \A sid \in DOMAIN sessions :
        sessions[sid].candidates = <<>> =>
            /\ sessions[sid].confidence = 0
            /\ sessions[sid].route_expert

\* every session of the HTTP program has candidates: the store holds the
\* four default specifications before the first request, nothing removes a
\* specification, and retrieve returns the best top_k of all of them
C28_CandidatesNeverEmpty ==
    \A sid \in DOMAIN sessions : sessions[sid].candidates # <<>>


\* C29: generate_sql returns no SQL for a session whose conflict notice is
\* still open.
C29_NoSqlWhileConflictOpen ==
    \A sid \in DOMAIN sessions :
        sessions[sid].conflict # NoConflict =>
            generate_sql(sessions[sid]).status # "ok"


\* an answer the question bank does not provide for: its slot is not a bank
\* slot, or its value is not among the slot's options
OutsideBank(ans) ==
    \/ ans.slot \notin DOMAIN BankOptions
    \/ ans.value \notin BankOptions[ans.slot]

\* C30: answers are not validated.  clarify with a list that holds an
\* answer outside the bank stores every answer as given (for each slot the
\* last one) and still selects the top candidate.
C30_AnswersNotValidated ==
    \A sid \in DOMAIN sessions : \A a \in ClarifyInputs :
        (\E i \in 1..Len(a) : OutsideBank(a[i])) =>
            LET post == clarify(sessions[sid], a)
            IN  /\ \A i \in 1..Len(a) :
                      /\ a[i].slot \in DOMAIN post.clarifications
                      /\ post.clarifications[a[i].slot]
                           = LastAnswerFor(a, a[i].slot)
                /\ sessions[sid].candidates # <<>> =>
                      post.selected_spec = sessions[sid].candidates[1].spec

\* a session that holds an answer for a slot outside the bank and a caliber
\* that is not an option, and has the top candidate selected
C30_Witness ==
    \E sid \in DOMAIN sessions :
        LET clar == sessions[sid].clarifications
        IN  /\ "region" \in DOMAIN clar
            /\ "metric_caliber" \in DOMAIN clar
            /\ clar["metric_caliber"].value = "tuikuan"
            /\ OutsideBank(clar["region"])
            /\ OutsideBank(clar["metric_caliber"])
            /\ sessions[sid].candidates # <<>>
            /\ sessions[sid].selected_spec = sessions[sid].candidates[1].spec


\* ---------------------------------------------------------------------- C31

\* C31: the session start_session returns has route_expert true exactly when
\* its candidate list is empty, or its top score is below 0.65, or a
\* conflict was detected, or force_expert was passed; a conflict or
\* force_expert leaves the selection the gate made.
C31_StartSessionRouting ==
    [][\A q \in Queries, u \in Users, f \in BOOLEAN :
          StartSession(q, u, f) =>
              LET s == sessions'[Len(sessions')]
                  gated == evaluate([NewSession(u, parse(q)) EXCEPT
                                        !.candidates = s.candidates])
              IN  /\ s.route_expert <=>
                        \/ s.candidates = <<>>
                        \/ s.candidates[1].score < 650
                        \/ detect(parse(q)) # NoConflict
                        \/ f
                  /\ s.conflict = detect(parse(q))
                  /\ s.selected_spec = gated.selected_spec]_vars

\* a fresh session with the gate's selection and route_expert true
C31_Witness ==
    \E sid \in DOMAIN sessions :
        LET s == sessions[sid]
        IN  /\ s.clarifications = <<>>
            /\ s.candidates # <<>>
            /\ s.candidates[1].score >= 850
            /\ s.selected_spec = s.candidates[1].spec
            /\ s.route_expert
            /\ s.forwarded_to = None

\* a fresh session routed to the expert for its low top score alone
C31_LowScoreRouted ==
    \E sid \in DOMAIN sessions :
        LET s == sessions[sid]
        IN  /\ s.clarifications = <<>>
            /\ s.candidates # <<>>
            /\ s.candidates[1].score < 650
            /\ s.conflict = NoConflict
            /\ s.selected_spec = None
            /\ s.route_expert


\* ---------------------------------------------------------------------- C32

\* the keyword set retrieve scored a session's candidates with
SessionKeywords(s) ==
    {Lower(k) : k \in Range(IF s.intent.metrics # <<>> THEN s.intent.metrics
                            ELSE <<s.intent.raw_query>>)}

\* how many keywords an entry's name tokens match
Overlap(o, keywords) == Cardinality(keywords \cap NameTokens[o])

\* C32: in a session fresh from start_session, two candidates that match the
\* same number of keywords differ by at most 0.145, and the gate has
\* selected only when there is a single candidate or the top candidate
\* matches strictly more keywords than the second, whatever the statuses and
\* usage counts of the catalog.
C32_SelectionNeedsMoreKeywords ==
    \A sid \in DOMAIN sessions :
        LET s == sessions[sid]
            c == s.candidates
            kw == SessionKeywords(s)
        IN  /\ \A i, j \in 1..Len(c) :
                  Overlap(c[i].spec, kw) = Overlap(c[j].spec, kw) =>
                      c[i].score - c[j].score <= 145
            /\ s.selected_spec # None =>
                  \/ Len(c) = 1
                  \/ Overlap(c[1].spec, kw) > Overlap(c[2].spec, kw)

\* a fresh session whose two leading candidates match the same keywords and
\* lie the full 0.145 apart, the top one at 1.0, with nothing selected
C32_Witness ==
    \E sid \in DOMAIN sessions :
        LET s == sessions[sid]
            c == s.candidates
        IN  /\ Len(c) >= 2
            /\ Overlap(c[1].spec, SessionKeywords(s))
                 = Overlap(c[2].spec, SessionKeywords(s))
            /\ c[1].score = 1000
            /\ c[1].score - c[2].score = 145
            /\ s.selected_spec = None

\* the gate has selected the only candidate of a session
C32_SingleCandidateSelected ==
    \E sid \in DOMAIN sessions :
        /\ Len(sessions[sid].candidates) = 1
        /\ sessions[sid].selected_spec # None

\* the gate has selected the top of several candidates
C32_MoreKeywordsSelected ==
    \E sid \in DOMAIN sessions :
        LET s == sessions[sid]
        IN  /\ Len(s.candidates) >= 2
            /\ s.selected_spec = s.candidates[1].spec
            /\ Overlap(s.candidates[1].spec, SessionKeywords(s))
                 > Overlap(s.candidates[2].spec, SessionKeywords(s))


\* ---------------------------------------------------------------------- C33

\* C33: when no catalog entry matches a keyword of the query, the session
\* start_session returns has a top score of at most 0.4, route_expert true
\* and nothing selected, whatever the statuses and usage counts.
C33_NoMatchRouted ==
    \A sid \in DOMAIN sessions :
        LET s == sessions[sid]
        IN  (\A o \in Range(get_all) : Overlap(o, SessionKeywords(s)) = 0) =>
                /\ \A i \in 1..Len(s.candidates) : s.candidates[i].score <= 400
                /\ s.route_expert
                /\ s.selected_spec = None

\* a fresh session without a conflict whose top candidate matches no keyword
\* and scores the full 0.4: verified and used beyond the cap
C33_Witness ==
    \E sid \in DOMAIN sessions :
        LET s == sessions[sid]
        IN  /\ s.candidates # <<>>
            /\ \A o \in Range(get_all) : Overlap(o, SessionKeywords(s)) = 0
            /\ s.candidates[1].score = 400
            /\ s.conflict = NoConflict
            /\ s.route_expert
            /\ s.selected_spec = None


\* ---------------------------------------------------------------------- C34

\* C34: no step changes the candidate list or the confidence of a session
\* that exists: not clarify, resolve_conflict, apply_expert_decision,
\* select_spec, generate_sql, nor an insertion, a promotion or a usage bump.
C34_CandidatesFixed ==
    [][\A sid \in DOMAIN sessions :
          /\ sid \in DOMAIN sessions'
          /\ sessions'[sid].candidates = sessions[sid].candidates
          /\ sessions'[sid].confidence = sessions[sid].confidence]_vars

\* a session that clarify has acted on after the catalog changed, with the
\* candidates of its start where retrieval would now answer otherwise
C34_Witness ==
    \E sid \in DOMAIN sessions :
        LET s == sessions[sid]
            now == start_session(s.intent.raw_query, s.user, FALSE)
        IN  /\ s.clarifications # <<>>
            /\ s.selected_spec # None
            /\ now.candidates # s.candidates
            /\ now.confidence # s.confidence


\* ---------------------------------------------------------------------- C35

\* C35: a session without candidates, after any sequence of clarify,
\* resolve_conflict, route_to_expert and apply_expert_decision, has nothing
\* selected; clarify leaves it so, apply_expert_decision changes nothing,
\* with or without a candidate handed in, and generate_sql raises.
C35_NoCandidatesNoSql ==
    \A sid \in DOMAIN sessions :
        LET s == sessions[sid]
        IN  s.candidates = <<>> =>
                /\ s.selected_spec = None
                /\ generate_sql(s).status = "ValueError"
                /\ \A a \in ClarifyInputs : clarify(s, a).selected_spec = None
                /\ \A c \in ExplicitCandidates : apply_expert_decision(s, c) = s

\* generate_sql has raised on a session without candidates that holds an
\* answer outside the question bank and has nothing selected
C35_Witness ==
    \E sid \in DOMAIN sessions :
        /\ sessions[sid].candidates = <<>>
        /\ "region" \in DOMAIN sessions[sid].clarifications
        /\ sessions[sid].selected_spec = None
        /\ result.status = "ValueError"


\* ---------------------------------------------------------------------- C36

\* C36: in a session driven through the HTTP handlers, selected_spec, when
\* set, is the spec of one of the session's own candidates.
C36_SelectionAmongCandidates ==
    \A sid \in DOMAIN sessions :
        LET s == sessions[sid]
        IN  s.selected_spec # None =>
                \E i \in 1..Len(s.candidates) :
                    s.candidates[i].spec = s.selected_spec

\* a select request has chosen a candidate below the top of the list, in a
\* session whose store now holds another object under the same spec id
C36_Witness ==
    \E sid \in DOMAIN sessions :
        LET s == sessions[sid]
        IN  /\ s.selected_spec # None
            /\ \E i \in 2..Len(s.candidates) :
                  s.candidates[i].spec = s.selected_spec
            /\ s.candidates[1].spec # s.selected_spec
            /\ BumpTarget(SpecIdOf(s.selected_spec)) # s.selected_spec
            /\ result.status = "200"


\* ---------------------------------------------------------------------- C37

\* C37: resolve_conflict with an option of the open notice changes the
\* notice and, in the intent, the granularity or the filters, one of the
\* two; candidates, clarifications, selected_spec, confidence and
\* route_expert are as before, so a session routed for its conflict is
\* still routed once the conflict is resolved.
C37_ResolveConflictFrame ==
    \A sid \in DOMAIN sessions : \A id \in OpenOptionIds(sessions[sid]) :
        LET pre == sessions[sid]
            post == resolve_conflict(pre, id)
        IN  /\ post = [pre EXCEPT !.intent = post.intent,
                                  !.conflict = NoConflict]
            /\ post.intent = [pre.intent EXCEPT
                                 !.granularity = post.intent.granularity,
                                 !.filters = post.intent.filters]
            /\ \/ post.intent.granularity = pre.intent.granularity
               \/ post.intent.filters = pre.intent.filters
            /\ post.intent # pre.intent
            /\ post.route_expert = pre.route_expert

\* a session the gate did not route (top score from 0.65 on), routed for
\* its conflict, and still routed after the option settle_weekly resolved it
C37_Witness ==
    \E sid \in DOMAIN sessions :
        LET s == sessions[sid]
        IN  /\ detect(parse(s.intent.raw_query)) # NoConflict
            /\ s.conflict = NoConflict
            /\ s.intent.granularity = "zhou"
            /\ s.candidates # <<>>
            /\ s.candidates[1].score >= 650
            /\ s.route_expert


\* ---------------------------------------------------------------------- C38

\* C38: clarify with no answers, directly or through /clarify, leaves the
\* clarification mapping as it is; on a session with candidates it sets
\* selected_spec to the top candidate's spec and changes nothing else, and
\* on a session without candidates it changes nothing; with answers on a
\* session without candidates it changes the clarification mapping only.
C38_ClarifyWithoutAnswers ==
    \A sid \in DOMAIN sessions :
        LET pre == sessions[sid]
            post == clarify(pre, <<>>)
        IN  /\ post.clarifications = pre.clarifications
            /\ IF pre.candidates # <<>>
               THEN post = [pre EXCEPT
                               !.selected_spec = pre.candidates[1].spec]
               ELSE /\ post = pre
                    /\ \A a \in ClarifyInputs :
                          clarify(pre, a) =
                              [pre EXCEPT !.clarifications =
                                              clarify(pre, a).clarifications]

\* clarify without answers has selected the top candidate of a session the
\* gate had routed to the expert for its low score: no answer is stored,
\* and the session is still routed
C38_Witness ==
    \E sid \in DOMAIN sessions :
        LET s == sessions[sid]
        IN  /\ s.clarifications = <<>>
            /\ s.candidates # <<>>
            /\ s.candidates[1].score < clarifying_threshold
            /\ s.selected_spec = s.candidates[1].spec
            /\ s.route_expert

\* clarify with answers has acted on a session without candidates
C38_NoCandidatesAnswered ==
    \E sid \in DOMAIN sessions :
        /\ sessions[sid].candidates = <<>>
        /\ "metric_caliber" \in DOMAIN sessions[sid].clarifications
        /\ sessions[sid].selected_spec = None
        /\ sessions[sid].route_expert


\* ---------------------------------------------------------------------- C39

\* C39: no step of the engine, of the HTTP handlers or of the catalog takes
\* a selection away: a session with a selected_spec has one after the step,
\* needs no clarification and generate_sql returns SQL for it.
C39_SelectionNeverCleared ==
    [][\A sid \in DOMAIN sessions :
          sessions[sid].selected_spec # None =>
              /\ sid \in DOMAIN sessions'
              /\ sessions'[sid].selected_spec # None
              /\ ~needs_clarification(sessions'[sid])
              /\ generate_sql(sessions'[sid]).status = "ok"]_vars

\* a session with a selection that was clarified, relieved of its conflict
\* and forwarded, and for which the handler has returned SQL
C39_Witness ==
    \E sid \in DOMAIN sessions :
        LET s == sessions[sid]
        IN  /\ s.selected_spec # None
            /\ s.clarifications # <<>>
            /\ detect(parse(s.intent.raw_query)) # NoConflict
            /\ s.conflict = NoConflict
            /\ s.forwarded_to # None
            /\ result.status = "200"
            /\ result.value # <<>>


\* ---------------------------------------------------------------------- C40

\* the lowercased keyword sets retrieve scores the catalog with
KeywordSets == {{Lower(k) : k \in Range(kw)} : kw \in RetrieveKeywords}

\* the usage bonus in an entry's score, in thousandths
UsageBonus(o) ==
    IF meta[o].usage_count * 10 < 100 THEN meta[o].usage_count * 10 ELSE 100

\* C40: mark_verified(spec_id) sets the status of the hot pool's entry for
\* the id to verified and changes nothing when the hot pool has no such
\* entry, be the id in the cold pool or unknown; and no step changes the
\* status of an entry held in the cold pool only, so an entry that is not
\* verified there keeps the freshness 0.255 in its score.
C40_ColdNeverPromoted ==
    [][/\ \A id \in SpecIds :
             mark_verified(id) =
                 IF DictGet(hot, id) # None
                 THEN [meta EXCEPT ![DictGet(hot, id)].status = "verified"]
                 ELSE meta
       /\ \A o \in Range(cold) \ Range(hot) :
             o \in Range(cold') \ Range(hot') =>
                 /\ meta'[o].status = meta[o].status
                 /\ meta[o].status # "verified" =>
                       \A kw \in KeywordSets :
                           _score_spec(o, kw)' =
                               Overlap(o, kw) * 600 + 255 + UsageBonus(o)']_vars

\* the hot revision of the settlement specification is verified and the
\* cold entry under the same spec id is still a draft, as is the cold-only
\* order specification
C40_Witness ==
    /\ "settle_rev" \in Range(hot) /\ "settle_v1" \in Range(cold)
    /\ "order_v1" \in Range(cold)
    /\ meta["settle_rev"].status = "verified"
    /\ meta["settle_v1"].status = "draft"
    /\ meta["order_v1"].status = "draft"


=============================================================================
